---- MODULE Spec2Model ----
(***************************************************************************)
(* Model of the Anthem A/V receiver integration (uc_intg_anthemav):        *)
(*   - parser.py: parse_message, the line parser, computed on real         *)
(*     character strings (prefix tests, regular-expression matches with    *)
(*     their greedy/backtracking behaviour, int() and str.strip());        *)
(*   - the device's message handler (fold into zone state + UPDATE emit);  *)
(*   - the session's command writer (send_command under the write lock);   *)
(*   - the session's life cycle (connect, read loop, retry, disconnect);   *)
(*   - media_player.py: AnthemMediaPlayer.handle_command.                  *)
(***************************************************************************)
EXTENDS Integers, Sequences, FiniteSets, TLC

VARIABLES
    pc,          \* parser run: "msg" (a message to encode), "start", "parsed"
    line,        \* the raw response string handed to parse_message
    orig,        \* the message the line was built from, or NoMsg
    result,      \* what parse_message returned for line
    zones,       \* device: zone number -> ZoneState (created lazily)
    configured,  \* device: zone numbers listed in the configuration
    lastMsg,     \* device: the message _handle_message was last called with
    lastEmits,   \* device: number of emit calls made by that last call
    emits,       \* device: number of emit calls made so far
    steps,       \* device: number of messages handled so far
    repeat,      \* device: the last message equals the one handled before it
    connected,   \* session: the connected flag
    sock,        \* session: "none" (no socket), "open", "dead" (peer gone, not yet noticed)
    wire,        \* writer: the bytes the endpoint has received, in order
    lock,        \* writer: the caller holding the write lock, 0 when free
    callers,     \* writer: caller -> its send_command call (position, command, result)
    okCount,     \* writer: number of send_command calls that returned true
    calls,       \* writer: number of send_command calls started
    rl,          \* session: the read loop, "stopped" or "running"
    inbox,       \* session: lines the device has sent that the loop has not read yet
    stopReq,     \* session: disconnect() was requested
    sup,         \* session: the supervising retry, "idle" or "retrying"
    attempts,    \* session: connect() calls made by the retry since the last drop
    drops,       \* session: socket drops so far
    recvd,       \* session: lines read by the loop so far
    lastLine,    \* session: the line the loop read last
    lastOp,      \* session: the last two operations that ran, <<earlier, latest>>
    raised,      \* session: the latest operation raised to its caller
    mpZone,      \* media player: zone_config.zone_number
    mpMuted,     \* media player: attributes[MUTED]
    mpLast,      \* media player: the last handle_command call and what it did
    mpAttrs,     \* media player: attributes STATE, VOLUME, SOURCE, MEDIA_TITLE
    mpSent,      \* media player: mute values MUTE_TOGGLE has sent since the last device update
    setup,       \* setup flow: the query_device call in progress and what it has done
    rmZone,      \* remote: zone_config.zone_number
    rmLast,      \* remote: the last handle_command call and what it did
    devices,     \* configuration: the device list of AnthemConfig, in order
    disk,        \* configuration: the device list last written to the file
    cfgLast      \* configuration: the last call and what it gave back

parserVars == <<pc, line, orig, result>>
deviceVars == <<zones, configured, lastMsg, lastEmits, emits, steps, repeat>>
connVars == <<connected, sock>>
writerVars == <<wire, lock, callers, okCount, calls>>
sessionVars == <<rl, inbox, stopReq, sup, attempts, drops, recvd, lastLine, lastOp, raised>>
playerVars == <<mpZone, mpMuted, mpLast, mpAttrs, mpSent>>
setupVars == <<setup>>
remoteVars == <<rmZone, rmLast>>
configVars == <<devices, disk, cfgLast>>
vars == <<pc, line, orig, result, zones, configured, lastMsg, lastEmits, emits, steps, repeat,
          connected, sock, wire, lock, callers, okCount, calls,
          rl, inbox, stopReq, sup, attempts, drops, recvd, lastLine, lastOp, raised,
          mpZone, mpMuted, mpLast, mpAttrs, mpSent, setup, rmZone, rmLast, devices, disk, cfgLast>>

\* the parts of the program a run does not exercise stay as constructed
ConnIdle == connected = FALSE /\ sock = "none"

WriterIdle == wire = "" /\ lock = 0 /\ callers = <<>> /\ okCount = 0 /\ calls = 0

SessionIdle ==
    /\ rl = "stopped"
    /\ inbox = <<>>
    /\ stopReq = FALSE
    /\ sup = "idle"
    /\ attempts = 0
    /\ drops = 0
    /\ recvd = 0
    /\ lastLine = ""
    /\ lastOp = <<"init", "init">>
    /\ raised = FALSE

\* attributes as the constructor sets them (percentages in hundredths)
InitialAttrs == [state |-> "UNAVAILABLE", volume |-> 0, source |-> "", media_title |-> ""]

PlayerIdle ==
    /\ mpZone = 0
    /\ mpMuted = FALSE
    /\ mpLast = [cmd_id |-> "none"]
    /\ mpAttrs = InitialAttrs
    /\ mpSent = {}

SetupIdle == setup = [at |-> "none"]

RemoteIdle == rmZone = 0 /\ rmLast = [cmd_id |-> "none"]

ConfigIdle == devices = <<>> /\ disk = <<>> /\ cfgLast = [op |-> "none"]

-----------------------------------------------------------------------------
(* Bounds *)

MaxFrags == 2      \* fragments concatenated after the head of an input line
MaxMode == 17      \* listening-mode numbers 0..MaxMode are encoded (table is 0..15)
MaxZone == 2       \* zones 1..MaxZone reach the device handler
MaxSteps == 2      \* messages handled by the device in one behaviour

-----------------------------------------------------------------------------
(* Strings: Python str operations used by the parser *)

\* the slice s[m-1:n]: positions m..n of s, cut off at the end of s
Slice(s, m, n) ==
    IF m > Len(s) THEN "" ELSE SubSeq(s, m, IF n > Len(s) THEN Len(s) ELSE n)

\* the character at position i, empty past the end
At(s, i) == Slice(s, i, i)

IsDigit(c) == c \in {"0", "1", "2", "3", "4", "5", "6", "7", "8", "9"}

Whitespace == {" ", "\t", "\n", "\r", "\f"}

DigitVal(c) ==
    CASE c = "0" -> 0 [] c = "1" -> 1 [] c = "2" -> 2 [] c = "3" -> 3
      [] c = "4" -> 4 [] c = "5" -> 5 [] c = "6" -> 6 [] c = "7" -> 7
      [] c = "8" -> 8 [] c = "9" -> 9

DigitChar(d) ==
    CASE d = 0 -> "0" [] d = 1 -> "1" [] d = 2 -> "2" [] d = 3 -> "3"
      [] d = 4 -> "4" [] d = 5 -> "5" [] d = 6 -> "6" [] d = 7 -> "7"
      [] d = 8 -> "8" [] d = 9 -> "9"

\* int() of a non-empty run of decimal digits
RECURSIVE StrToNat(_)
StrToNat(s) ==
    IF s = "" THEN 0
    ELSE StrToNat(Slice(s, 1, Len(s) - 1)) * 10 + DigitVal(At(s, Len(s)))

\* int() of an optionally signed run of decimal digits
StrToInt(s) ==
    IF At(s, 1) = "-" THEN 0 - StrToNat(Slice(s, 2, Len(s))) ELSE StrToNat(s)

\* str() of an int, as an f-string formats it
RECURSIVE NatToStr(_)
NatToStr(n) ==
    IF n < 10 THEN DigitChar(n) ELSE NatToStr(n \div 10) \o DigitChar(n % 10)

IntToStr(n) == IF n < 0 THEN "-" \o NatToStr(0 - n) ELSE NatToStr(n)

\* str.startswith
StartsWith(s, p) == Len(s) >= Len(p) /\ Slice(s, 1, Len(p)) = p

\* the `in` operator on strings
Contains(s, p) == \E i \in 1..(Len(s) - Len(p) + 1) : Slice(s, i, i + Len(p) - 1) = p

\* number of consecutive digits of s from position i on (what \d+ consumes greedily)
RECURSIVE DigitRun(_, _)
DigitRun(s, i) ==
    IF i <= Len(s) /\ IsDigit(At(s, i)) THEN 1 + DigitRun(s, i + 1) ELSE 0

\* number of consecutive characters other than a line feed from position i on
\* (what .+ consumes greedily)
RECURSIVE DotRun(_, _)
DotRun(s, i) ==
    IF i <= Len(s) /\ At(s, i) # "\n" THEN 1 + DotRun(s, i + 1) ELSE 0

\* str.strip()
RECURSIVE LStrip(_)
LStrip(s) == IF s # "" /\ At(s, 1) \in Whitespace THEN LStrip(Slice(s, 2, Len(s))) ELSE s

RECURSIVE RStrip(_)
RStrip(s) ==
    IF s # "" /\ At(s, Len(s)) \in Whitespace THEN RStrip(Slice(s, 1, Len(s) - 1)) ELSE s

Strip(s) == RStrip(LStrip(s))

-----------------------------------------------------------------------------
(* constants.py: MessagePrefixes *)

ERROR_INVALID_COMMAND == "!I"
ERROR_EXECUTION_FAILED == "!E"
SYSTEM_MODEL == "IDM"

-----------------------------------------------------------------------------
(* models.py: the parsed messages, as records tagged with their class *)

NoMsg == [kind |-> "None"]

SystemModel(m) == [kind |-> "SystemModel", model |-> m]
InputCount(c) == [kind |-> "InputCount", count |-> c]
InputName(n, nm) == [kind |-> "InputName", input_number |-> n, name |-> nm]
ZonePower(z, b) == [kind |-> "ZonePower", zone |-> z, is_on |-> b]
ZoneVolume(z, v) == [kind |-> "ZoneVolume", zone |-> z, volume_db |-> v]
ZoneMute(z, b) == [kind |-> "ZoneMute", zone |-> z, is_muted |-> b]
ZoneInput(z, n) == [kind |-> "ZoneInput", zone |-> z, input_number |-> n]
ZoneAudioFormat(z, t) == [kind |-> "ZoneAudioFormat", zone |-> z, format |-> t]
ZoneAudioChannels(z, t) == [kind |-> "ZoneAudioChannels", zone |-> z, channels |-> t]
ZoneVideoResolution(z, t) == [kind |-> "ZoneVideoResolution", zone |-> z, resolution |-> t]
ZoneListeningMode(z, n, nm) ==
    [kind |-> "ZoneListeningMode", zone |-> z, mode_number |-> n, mode_name |-> nm]
ZoneSampleRateInfo(z, t) == [kind |-> "ZoneSampleRateInfo", zone |-> z, info |-> t]
ZoneSampleRate(z, n) == [kind |-> "ZoneSampleRate", zone |-> z, rate_khz |-> n]
ZoneBitDepth(z, n) == [kind |-> "ZoneBitDepth", zone |-> z, depth |-> n]

ZoneKinds ==
    {"ZonePower", "ZoneVolume", "ZoneMute", "ZoneInput", "ZoneAudioFormat",
     "ZoneAudioChannels", "ZoneVideoResolution", "ZoneListeningMode",
     "ZoneSampleRateInfo", "ZoneSampleRate", "ZoneBitDepth"}

-----------------------------------------------------------------------------
(* parser.py *)

\* the table of _get_listening_mode_name
mode_names ==
    [n \in 0..15 |->
        CASE n = 0 -> "None"
          [] n = 1 -> "AnthemLogic Cinema"
          [] n = 2 -> "AnthemLogic Music"
          [] n = 3 -> "Dolby Surround"
          [] n = 4 -> "DTS Neural:X"
          [] n = 5 -> "Stereo"
          [] n = 6 -> "Multi-Channel Stereo"
          [] n = 7 -> "All-Channel Stereo"
          [] n = 8 -> "PLIIx Movie"
          [] n = 9 -> "PLIIx Music"
          [] n = 10 -> "Neo:6 Cinema"
          [] n = 11 -> "Neo:6 Music"
          [] n = 12 -> "Dolby Digital"
          [] n = 13 -> "DTS"
          [] n = 14 -> "PCM Stereo"
          [] n = 15 -> "Direct"]

\* _get_listening_mode_name with a fixed default for numbers off the table
_get_listening_mode_name_unknown(mode_num) ==
    IF mode_num \in DOMAIN mode_names THEN mode_names[mode_num] ELSE "Unknown"

\* mode_names.get(mode_num, f"Mode {mode_num}")
_get_listening_mode_name(mode_num) ==
    IF mode_num \in DOMAIN mode_names THEN mode_names[mode_num]
    ELSE "Mode " \o IntToStr(mode_num)

\* A regular-expression match: found, and the text of group 1 and group 2
NoMatch == [found |-> FALSE, g1 |-> "", g2 |-> ""]
Match(a, b) == [found |-> TRUE, g1 |-> a, g2 |-> b]

\* IcnMatch with re.search in place of re.match: ICN<digits> found anywhere
IcnMatchSearch(response) ==
    LET hits == {i \in 1..Len(response) :
                    Slice(response, i, i + 2) = "ICN" /\ DigitRun(response, i + 3) >= 1} IN
    IF hits = {} THEN NoMatch
    ELSE LET i == CHOOSE h \in hits : \A k \in hits : h <= k
         IN Match(Slice(response, i + 3, i + 2 + DigitRun(response, i + 3)), "")

\* re.match(r"ICN(\d+)", response)
IcnMatch(response) ==
    LET n == DigitRun(response, 4) IN
    IF StartsWith(response, "ICN") /\ n >= 1
    THEN Match(Slice(response, 4, 3 + n), "")
    ELSE NoMatch

\* IsMatch with \d in place of \d{1,2}: a single digit only
IsMatchOneDigit(response) ==
    LET d == DotRun(response, 6) IN
    IF /\ StartsWith(response, "IS")
       /\ IsDigit(At(response, 3))
       /\ Slice(response, 4, 5) = "IN"
       /\ d >= 1
    THEN Match(At(response, 3), Slice(response, 6, 5 + d))
    ELSE NoMatch

\* re.match(r"IS(\d{1,2})IN(.+)", response): one or two digits, then IN, then
\* at least one character; a third digit, or a digit where IN must stand,
\* makes both the two-digit and the one-digit attempt fail
IsMatch(response) ==
    LET n == DigitRun(response, 3)
        d == DotRun(response, 5 + n) IN
    IF /\ StartsWith(response, "IS")
       /\ n \in {1, 2}
       /\ Slice(response, 3 + n, 4 + n) = "IN"
       /\ d >= 1
    THEN Match(Slice(response, 3, 2 + n), Slice(response, 5 + n, 4 + n + d))
    ELSE NoMatch

\* ZoneMatch handing on everything after the Z as the payload, zone digits
\* included
ZoneMatchWholeTail(response) ==
    LET n == DigitRun(response, 2)
        d == DotRun(response, 2 + n) IN
    IF ~ (StartsWith(response, "Z") /\ n >= 1) THEN NoMatch
    ELSE IF d >= 1
         THEN Match(Slice(response, 2, 1 + n), Slice(response, 2, 1 + n + d))
    ELSE IF n >= 2
         THEN Match(Slice(response, 2, n), Slice(response, 2, 1 + n))
    ELSE NoMatch

\* ZoneMatch with \d in place of \d+: the zone is one digit, further digits
\* open the payload
ZoneMatchOneDigit(response) ==
    LET d == DotRun(response, 3) IN
    IF StartsWith(response, "Z") /\ IsDigit(At(response, 2)) /\ d >= 1
    THEN Match(At(response, 2), Slice(response, 3, 2 + d))
    ELSE NoMatch

\* re.match(r"Z(\d+)(.+)", response): \d+ takes the whole digit run; when the
\* run reaches the end of the line, .+ gets its one character by backtracking
\* \d+ by one digit, which needs a run of at least two
ZoneMatch(response) ==
    LET n == DigitRun(response, 2)
        d == DotRun(response, 2 + n) IN
    IF ~ (StartsWith(response, "Z") /\ n >= 1) THEN NoMatch
    ELSE IF d >= 1
         THEN Match(Slice(response, 2, 1 + n), Slice(response, 2 + n, 1 + n + d))
    ELSE IF n >= 2
         THEN Match(Slice(response, 2, n), Slice(response, 1 + n, 1 + n))
    ELSE NoMatch

\* positions of payload where key stands
KeyAt(payload, key, i) == Slice(payload, i, i + Len(key) - 1) = key

\* re.search(key + r"(\d+)", payload): the leftmost key followed by a digit
SearchDigits(payload, key) ==
    LET hits == {i \in 1..Len(payload) :
                    KeyAt(payload, key, i) /\ DigitRun(payload, i + Len(key)) >= 1} IN
    IF hits = {} THEN NoMatch
    ELSE LET i == CHOOSE h \in hits : \A k \in hits : h <= k
             s == i + Len(key)
         IN Match(Slice(payload, s, s + DigitRun(payload, s) - 1), "")

\* SearchVol with the sign outside the group: VOL-?(\d+)
SearchVolUnsigned(payload) ==
    LET signed(i) == At(payload, i + 3) = "-" /\ DigitRun(payload, i + 4) >= 1
        hits == {i \in 1..Len(payload) :
                    /\ KeyAt(payload, "VOL", i)
                    /\ (DigitRun(payload, i + 3) >= 1 \/ signed(i))} IN
    IF hits = {} THEN NoMatch
    ELSE LET i == CHOOSE h \in hits : \A k \in hits : h <= k
             s == IF signed(i) THEN i + 4 ELSE i + 3
         IN Match(Slice(payload, s, s + DigitRun(payload, s) - 1), "")

\* re.search(r"VOL(-?\d+)", payload): the leftmost VOL followed by a digit, or
\* by a minus sign and a digit
SearchVol(payload) ==
    LET signed(i) == At(payload, i + 3) = "-" /\ DigitRun(payload, i + 4) >= 1
        hits == {i \in 1..Len(payload) :
                    /\ KeyAt(payload, "VOL", i)
                    /\ (DigitRun(payload, i + 3) >= 1 \/ signed(i))} IN
    IF hits = {} THEN NoMatch
    ELSE LET i == CHOOSE h \in hits : \A k \in hits : h <= k
             s == i + 3
         IN IF signed(i)
            THEN Match(Slice(payload, s, s + DigitRun(payload, s + 1)), "")
            ELSE Match(Slice(payload, s, s + DigitRun(payload, s) - 1), "")

\* re.search(key + r"(.+)", payload): the leftmost key with a character after it
SearchRest(payload, key) ==
    LET hits == {i \in 1..Len(payload) :
                    KeyAt(payload, key, i) /\ DotRun(payload, i + Len(key)) >= 1} IN
    IF hits = {} THEN NoMatch
    ELSE LET i == CHOOSE h \in hits : \A k \in hits : h <= k
             s == i + Len(key)
         IN Match(Slice(payload, s, s + DotRun(payload, s) - 1), "")

\* the truth test of the POW and MUT branches
HasOne(payload) == Contains(payload, "1")

\* AlmGuard without the test for a query echo
AlmGuardNoQuery(payload) == Contains(payload, "ALM")

\* the guard of the ALM branch
AlmGuard(payload) == Contains(payload, "ALM") /\ ~ Contains(payload, "?")

\* int(zone_match.group(1))
ZoneNum(zone_match) == StrToNat(zone_match.g1)

\* ParseControl with the MUT test moved ahead of the VOL test
ParseControlMutFirst(zone_num, payload) ==
    IF Contains(payload, "POW")
    THEN ZonePower(zone_num, HasOne(payload))
    ELSE IF Contains(payload, "MUT")
    THEN ZoneMute(zone_num, HasOne(payload))
    ELSE IF Contains(payload, "VOL") /\ SearchVol(payload).found
    THEN ZoneVolume(zone_num, StrToInt(SearchVol(payload).g1))
    ELSE IF Contains(payload, "INP") /\ SearchDigits(payload, "INP").found
    THEN ZoneInput(zone_num, StrToNat(SearchDigits(payload, "INP").g1))
    ELSE NoMsg

\* ParseControl giving up on a VOL without a number: the tests for MUT and
\* INP are not reached
ParseControlVolDiscard(zone_num, payload) ==
    IF Contains(payload, "POW")
    THEN ZonePower(zone_num, HasOne(payload))
    ELSE IF Contains(payload, "VOL")
    THEN IF SearchVol(payload).found
         THEN ZoneVolume(zone_num, StrToInt(SearchVol(payload).g1))
         ELSE NoMsg
    ELSE IF Contains(payload, "MUT")
    THEN ZoneMute(zone_num, HasOne(payload))
    ELSE IF Contains(payload, "INP") /\ SearchDigits(payload, "INP").found
    THEN ZoneInput(zone_num, StrToNat(SearchDigits(payload, "INP").g1))
    ELSE NoMsg

\* the zone branch of parse_message, first part: the control keys POW, VOL,
\* MUT, INP, tried in source order; a key whose pattern finds nothing is
\* passed over and the next if statement is tried
ParseControl(zone_num, payload) ==
    IF Contains(payload, "POW")
    THEN ZonePower(zone_num, HasOne(payload))
    ELSE IF Contains(payload, "VOL") /\ SearchVol(payload).found
    THEN ZoneVolume(zone_num, StrToInt(SearchVol(payload).g1))
    ELSE IF Contains(payload, "MUT")
    THEN ZoneMute(zone_num, HasOne(payload))
    ELSE IF Contains(payload, "INP") /\ SearchDigits(payload, "INP").found
    THEN ZoneInput(zone_num, StrToNat(SearchDigits(payload, "INP").g1))
    ELSE NoMsg

\* the zone branch, second part ("Sensor data"): AIF, AIC, VIR, ALM, AIR,
\* SRT, BDP, tried in source order
ParseSensor(zone_num, payload) ==
    IF Contains(payload, "AIF") /\ SearchRest(payload, "AIF").found
    THEN ZoneAudioFormat(zone_num, Strip(SearchRest(payload, "AIF").g1))
    ELSE IF Contains(payload, "AIC") /\ SearchRest(payload, "AIC").found
    THEN ZoneAudioChannels(zone_num, Strip(SearchRest(payload, "AIC").g1))
    ELSE IF Contains(payload, "VIR") /\ SearchRest(payload, "VIR").found
    THEN ZoneVideoResolution(zone_num, Strip(SearchRest(payload, "VIR").g1))
    ELSE IF AlmGuard(payload) /\ SearchDigits(payload, "ALM").found
    THEN LET mode_num == StrToNat(SearchDigits(payload, "ALM").g1)
         IN ZoneListeningMode(zone_num, mode_num, _get_listening_mode_name(mode_num))
    ELSE IF Contains(payload, "AIR") /\ SearchRest(payload, "AIR").found
    THEN ZoneSampleRateInfo(zone_num, Strip(SearchRest(payload, "AIR").g1))
    ELSE IF Contains(payload, "SRT") /\ SearchDigits(payload, "SRT").found
    THEN ZoneSampleRate(zone_num, StrToNat(SearchDigits(payload, "SRT").g1))
    ELSE IF Contains(payload, "BDP") /\ SearchDigits(payload, "BDP").found
    THEN ZoneBitDepth(zone_num, StrToNat(SearchDigits(payload, "BDP").g1))
    ELSE NoMsg

\* the whole zone branch: the first if statement that returns decides
ParseZone(zone_num, payload) ==
    IF ParseControl(zone_num, payload) # NoMsg
    THEN ParseControl(zone_num, payload)
    ELSE ParseSensor(zone_num, payload)

\* the error-prefix test that precedes every pattern
IsErrorLine(response) ==
    StartsWith(response, ERROR_INVALID_COMMAND) \/ StartsWith(response, ERROR_EXECUTION_FAILED)

parse_message(response) ==
    IF response = "" THEN NoMsg
    ELSE IF IsErrorLine(response) THEN NoMsg
    ELSE IF StartsWith(response, SYSTEM_MODEL)
    THEN SystemModel(Strip(Slice(response, 4, Len(response))))
    ELSE IF IcnMatch(response).found
    THEN InputCount(StrToNat(IcnMatch(response).g1))
    ELSE IF IsMatch(response).found
    THEN InputName(StrToNat(IsMatch(response).g1), Strip(IsMatch(response).g2))
    ELSE IF ZoneMatch(response).found
    THEN ParseZone(ZoneNum(ZoneMatch(response)), ZoneMatch(response).g2)
    ELSE NoMsg

-----------------------------------------------------------------------------
(* tests/test_parser.py: the wire line a message is built into *)

BoolChar(b) == IF b THEN "1" ELSE "0"

encode(m) ==
    CASE m.kind = "SystemModel" -> "IDM" \o m.model
      [] m.kind = "InputCount" -> "ICN" \o IntToStr(m.count)
      [] m.kind = "InputName" -> "IS" \o IntToStr(m.input_number) \o "IN" \o m.name
      [] m.kind = "ZonePower" -> "Z" \o IntToStr(m.zone) \o "POW" \o BoolChar(m.is_on)
      [] m.kind = "ZoneVolume" -> "Z" \o IntToStr(m.zone) \o "VOL" \o IntToStr(m.volume_db)
      [] m.kind = "ZoneMute" -> "Z" \o IntToStr(m.zone) \o "MUT" \o BoolChar(m.is_muted)
      [] m.kind = "ZoneInput" -> "Z" \o IntToStr(m.zone) \o "INP" \o IntToStr(m.input_number)
      [] m.kind = "ZoneAudioFormat" -> "Z" \o IntToStr(m.zone) \o "AIF" \o m.format
      [] m.kind = "ZoneAudioChannels" -> "Z" \o IntToStr(m.zone) \o "AIC" \o m.channels
      [] m.kind = "ZoneVideoResolution" -> "Z" \o IntToStr(m.zone) \o "VIR" \o m.resolution
      [] m.kind = "ZoneListeningMode" -> "Z" \o IntToStr(m.zone) \o "ALM" \o IntToStr(m.mode_number)
      [] m.kind = "ZoneSampleRateInfo" -> "Z" \o IntToStr(m.zone) \o "AIR" \o m.info
      [] m.kind = "ZoneSampleRate" -> "Z" \o IntToStr(m.zone) \o "SRT" \o IntToStr(m.rate_khz)
      [] m.kind = "ZoneBitDepth" -> "Z" \o IntToStr(m.zone) \o "BDP" \o IntToStr(m.depth)

-----------------------------------------------------------------------------
(* Inputs of the parser *)

\* how an input line starts
Heads ==
    {"", "GARBAGE", "XICN", "Z", "Z0", "Z1", "Z2", "Z12", "IDM", "ICN", "IS1IN",
     "IS12IN", "IS123IN", "!I", "!E", "!IZ1", "!EIDM"}

\* what follows the head: up to MaxFrags of these, concatenated
Frags ==
    {"POW", "VOL-35", "VOL5", "VOL", "MUT", "INP2", "AIFa", "AICb", "VIRc",
     "ALM3", "ALM", "AIRd", "SRT48", "BDP24", "?", "0", "1", " "}

RECURSIVE Bodies(_)
Bodies(k) ==
    IF k = 0 THEN {""}
    ELSE LET prev == Bodies(k - 1) IN prev \cup {b \o f : b \in prev, f \in Frags}

Lines == {h \o b : h \in Heads, b \in Bodies(MaxFrags)}

\* the field values of the messages that are encoded
Texts == {"", "a", "HDMI 1", " 4K", "PCM MUTE", "7.1.4"}
Nums == {-1, 0, 3, 15, 100}
MsgZones == {-1, 0, 1, 12}
ModeNums == (0..MaxMode) \cup {99}

Messages ==
    {SystemModel(t) : t \in Texts}
    \cup {InputCount(n) : n \in Nums}
    \cup {InputName(n, t) : n \in Nums, t \in Texts}
    \cup {ZonePower(z, b) : z \in MsgZones, b \in BOOLEAN}
    \cup {ZoneVolume(z, n) : z \in MsgZones, n \in Nums \cup {-35, -90}}
    \cup {ZoneMute(z, b) : z \in MsgZones, b \in BOOLEAN}
    \cup {ZoneInput(z, n) : z \in MsgZones, n \in Nums}
    \cup {ZoneAudioFormat(z, t) : z \in MsgZones, t \in Texts}
    \cup {ZoneAudioChannels(z, t) : z \in MsgZones, t \in Texts}
    \cup {ZoneVideoResolution(z, t) : z \in MsgZones, t \in Texts}
    \cup {ZoneListeningMode(z, n, _get_listening_mode_name(n)) : z \in MsgZones, n \in ModeNums}
    \cup {ZoneListeningMode(z, n, "Custom") : z \in MsgZones, n \in ModeNums}
    \cup {ZoneSampleRateInfo(z, t) : z \in MsgZones, t \in Texts}
    \cup {ZoneSampleRate(z, n) : z \in MsgZones, n \in Nums}
    \cup {ZoneBitDepth(z, n) : z \in MsgZones, n \in Nums}

-----------------------------------------------------------------------------
(* The parser run: a line, or a message built into a line, is parsed *)

DeviceIdle ==
    /\ zones = <<>>
    /\ configured = {}
    /\ lastMsg = NoMsg
    /\ lastEmits = 0
    /\ emits = 0
    /\ steps = 0
    /\ repeat = FALSE

Init ==
    /\ result = NoMsg
    /\ \/ pc = "start" /\ orig = NoMsg /\ line \in Lines
       \/ pc = "msg" /\ orig \in Messages /\ line = ""
    /\ DeviceIdle
    /\ ConnIdle /\ WriterIdle /\ SessionIdle /\ PlayerIdle
    /\ SetupIdle /\ RemoteIdle /\ ConfigIdle

Encode ==
    /\ pc = "msg"
    /\ line' = encode(orig)
    /\ pc' = "start"
    /\ UNCHANGED <<orig, result>>
    /\ UNCHANGED deviceVars
    /\ UNCHANGED <<connVars, writerVars, sessionVars, playerVars, setupVars, remoteVars, configVars>>

Parse ==
    /\ pc = "start"
    /\ result' = parse_message(line)
    /\ pc' = "parsed"
    /\ UNCHANGED <<line, orig>>
    /\ UNCHANGED deviceVars
    /\ UNCHANGED <<connVars, writerVars, sessionVars, playerVars, setupVars, remoteVars, configVars>>

Next == Encode \/ Parse

Spec == Init /\ [][Next]_vars

-----------------------------------------------------------------------------
(* models.py: ZoneState, with the defaults of the dataclass *)

ZoneState ==
    [power |-> FALSE, volume_db |-> -90, muted |-> FALSE, input_number |-> 1,
     input_name |-> "Unknown", audio_format |-> "Unknown", audio_channels |-> "Unknown",
     video_resolution |-> "Unknown", listening_mode |-> "Unknown", sample_rate |-> "Unknown"]

-----------------------------------------------------------------------------
(* The device: AnthemDevice._handle_message, the fold of a parsed message   *)
(* into the zone state and the UPDATE events it emits                       *)

\* the message classes that carry sensor telemetry
SensorKinds ==
    {"ZoneAudioFormat", "ZoneAudioChannels", "ZoneVideoResolution", "ZoneListeningMode",
     "ZoneSampleRateInfo", "ZoneSampleRate", "ZoneBitDepth"}

\* _is_sensor_zone with the configured zones as the sensor zones
_is_sensor_zone_configured(zone) == zone \in configured

\* sensors are surfaced for zone 1 only
_is_sensor_zone(zone) == zone = 1

\* the zone's state, created with the defaults when the zone is first seen
ZoneOf(zs, zone) == IF zone \in DOMAIN zs THEN zs[zone] ELSE ZoneState

\* a fold that flips the mute flag on every message instead of assigning
FoldToggle(st, m) == [st EXCEPT !.muted = ~ st.muted]

\* the field a zone message is assigned to; a bit depth has no field of its own
Fold(st, m) ==
    CASE m.kind = "ZonePower" -> [st EXCEPT !.power = m.is_on]
      [] m.kind = "ZoneVolume" -> [st EXCEPT !.volume_db = m.volume_db]
      [] m.kind = "ZoneMute" -> [st EXCEPT !.muted = m.is_muted]
      [] m.kind = "ZoneInput" -> [st EXCEPT !.input_number = m.input_number]
      [] m.kind = "ZoneAudioFormat" -> [st EXCEPT !.audio_format = m.format]
      [] m.kind = "ZoneAudioChannels" -> [st EXCEPT !.audio_channels = m.channels]
      [] m.kind = "ZoneVideoResolution" -> [st EXCEPT !.video_resolution = m.resolution]
      [] m.kind = "ZoneListeningMode" -> [st EXCEPT !.listening_mode = m.mode_name]
      [] m.kind = "ZoneSampleRateInfo" -> [st EXCEPT !.sample_rate = m.info]
      [] m.kind = "ZoneSampleRate" -> [st EXCEPT !.sample_rate = IntToStr(m.rate_khz)]
      [] m.kind = "ZoneBitDepth" -> st

\* the number of emit calls a zone message causes
EmitCount(m) ==
    IF m.kind \in SensorKinds
    THEN IF _is_sensor_zone(m.zone) THEN 1 ELSE 0
    ELSE 1

\* the zone messages that reach the handler
DeviceZones == 1..MaxZone

DeviceMessages ==
    {ZonePower(z, b) : z \in DeviceZones, b \in BOOLEAN}
    \cup {ZoneVolume(z, v) : z \in DeviceZones, v \in {-35, 0}}
    \cup {ZoneMute(z, b) : z \in DeviceZones, b \in BOOLEAN}
    \cup {ZoneInput(z, 2) : z \in DeviceZones}
    \cup {ZoneAudioFormat(z, "Dolby Atmos") : z \in DeviceZones}
    \cup {ZoneAudioChannels(z, "7.1.4") : z \in DeviceZones}
    \cup {ZoneVideoResolution(z, "4K") : z \in DeviceZones}
    \cup {ZoneListeningMode(z, 3, _get_listening_mode_name(3)) : z \in DeviceZones}
    \cup {ZoneSampleRateInfo(z, "48kHz") : z \in DeviceZones}
    \cup {ZoneSampleRate(z, 48) : z \in DeviceZones}
    \cup {ZoneBitDepth(z, 24) : z \in DeviceZones}

ParserIdle ==
    /\ pc = "idle"
    /\ line = ""
    /\ orig = NoMsg
    /\ result = NoMsg

\* a device built from a configuration that lists any of the zones, or none
InitDevice ==
    /\ ParserIdle
    /\ ConnIdle /\ WriterIdle /\ SessionIdle /\ PlayerIdle
    /\ SetupIdle /\ RemoteIdle /\ ConfigIdle
    /\ configured \in SUBSET DeviceZones
    /\ zones = [z \in configured |-> ZoneState]
    /\ lastMsg = NoMsg
    /\ lastEmits = 0
    /\ emits = 0
    /\ steps = 0
    /\ repeat = FALSE

HandleMessage(m) ==
    /\ steps < MaxSteps
    /\ zones' = [z \in DOMAIN zones \cup {m.zone} |->
                    IF z = m.zone THEN Fold(ZoneOf(zones, z), m) ELSE zones[z]]
    /\ lastMsg' = m
    /\ lastEmits' = EmitCount(m)
    /\ emits' = emits + EmitCount(m)
    /\ steps' = steps + 1
    /\ repeat' = (m = lastMsg)
    /\ UNCHANGED configured
    /\ UNCHANGED parserVars
    /\ UNCHANGED <<connVars, writerVars, sessionVars, playerVars, setupVars, remoteVars, configVars>>

NextDevice == \E m \in DeviceMessages : HandleMessage(m)

SpecDevice == InitDevice /\ [][NextDevice]_vars

-----------------------------------------------------------------------------
(* Reading a line as the wire protocol describes it: Z<digits><payload> *)

DigitChars == {"0", "1", "2", "3", "4", "5", "6", "7", "8", "9"}

\* the digit run that immediately follows the leading Z
ZoneDigits(l) == Slice(l, 2, 1 + DigitRun(l, 2))

\* the text after the zone digits
ZoneTail(l) == Slice(l, 2 + DigitRun(l, 2), Len(l))

IsZoneLine(l) == StartsWith(l, "Z") /\ DigitRun(l, 2) >= 1 /\ ZoneTail(l) # ""

\* the keys in dispatch order, and the message class of each
Keys == <<"POW", "VOL", "MUT", "INP", "AIF", "AIC", "VIR", "ALM", "AIR", "SRT", "BDP">>

Variants ==
    <<"ZonePower", "ZoneVolume", "ZoneMute", "ZoneInput", "ZoneAudioFormat",
      "ZoneAudioChannels", "ZoneVideoResolution", "ZoneListeningMode",
      "ZoneSampleRateInfo", "ZoneSampleRate", "ZoneBitDepth">>

KeyWithDigit(p, key) == \E d \in DigitChars : Contains(p, key \o d)

KeyWithText(p, key) == Contains(Slice(p, 1, Len(p) - 1), key)

\* payload p carries a well-formed value for the k-th key: POW and MUT need
\* none, VOL a signed integer, INP, SRT and BDP an unsigned one, ALM an
\* unsigned one in a payload that is not a query echo (no "?"), the text keys
\* at least one character
WellFormed(p, k) ==
    CASE Keys[k] \in {"POW", "MUT"} -> TRUE
      [] Keys[k] = "VOL" -> KeyWithDigit(p, "VOL") \/ KeyWithDigit(p, "VOL-")
      [] Keys[k] \in {"INP", "SRT", "BDP"} -> KeyWithDigit(p, Keys[k])
      [] Keys[k] = "ALM" -> KeyWithDigit(p, "ALM") /\ ~ Contains(p, "?")
      [] OTHER -> KeyWithText(p, Keys[k])

\* key k is in the payload with a well-formed value, and no earlier key is in it
FirstKey(p, k) ==
    /\ Contains(p, Keys[k])
    /\ WellFormed(p, k)
    /\ \A j \in 1..(k - 1) : ~ Contains(p, Keys[j])

\* the line matches one of the system patterns, or the zone pattern
MatchesSystem(l) ==
    \/ StartsWith(l, "IDM")
    \/ StartsWith(l, "ICN") /\ At(l, 4) \in DigitChars
    \/ \E n \in {1, 2} :
          /\ StartsWith(l, "IS")
          /\ \A i \in 3..(2 + n) : At(l, i) \in DigitChars
          /\ Slice(l, 3 + n, 4 + n) = "IN"
          /\ Len(l) >= 5 + n

MatchesZone(l) == StartsWith(l, "Z") /\ At(l, 2) \in DigitChars /\ Len(l) >= 3

-----------------------------------------------------------------------------
(* C1: when the device handles a parsed zone message, an UPDATE event is   *)
(* emitted if and only if the message is non-sensor (power, volume, mute,   *)
(* input) or its zone is 1; a sensor message for another zone is folded     *)
(* into that zone's stored state without any emit call, also when the zone  *)
(* is not in the configured zone list.                                      *)
C1_SensorEmitZone1 ==
    lastMsg.kind \in ZoneKinds =>
        /\ lastEmits >= 1 <=>
              (lastMsg.kind \in {"ZonePower", "ZoneVolume", "ZoneMute", "ZoneInput"}
               \/ lastMsg.zone = 1)
        /\ lastMsg.zone \in DOMAIN zones
        /\ lastMsg.kind = "ZoneAudioFormat" =>
              zones[lastMsg.zone].audio_format = lastMsg.format
        /\ lastMsg.kind = "ZoneAudioChannels" =>
              zones[lastMsg.zone].audio_channels = lastMsg.channels
        /\ lastMsg.kind = "ZoneVideoResolution" =>
              zones[lastMsg.zone].video_resolution = lastMsg.resolution
        /\ lastMsg.kind = "ZoneListeningMode" =>
              zones[lastMsg.zone].listening_mode = lastMsg.mode_name
        /\ lastMsg.kind = "ZoneSampleRateInfo" =>
              zones[lastMsg.zone].sample_rate = lastMsg.info

\* an audio format for a zone other than 1 that the configuration does not
\* list was stored and not emitted, after an emit for another message
C1_Witness ==
    /\ lastMsg.kind = "ZoneAudioFormat"
    /\ lastMsg.zone # 1
    /\ lastMsg.zone \notin configured
    /\ zones[lastMsg.zone].audio_format = lastMsg.format
    /\ lastEmits = 0
    /\ emits >= 1

(* C2: for a line Z<digits><payload>, if the payload contains key K with a  *)
(* well-formed value and no key earlier in the order POW, VOL, MUT, INP,    *)
(* AIF, AIC, VIR, ALM, AIR, SRT, BDP, the result is K's variant, whatever   *)
(* later keys the payload also contains.                                    *)
C2_DispatchOrder ==
    (pc = "parsed" /\ IsZoneLine(line)) =>
        \A k \in 1..11 : FirstKey(ZoneTail(line), k) => result.kind = Variants[k]

\* a control key other than POW wins over a later key that is also present
C2_Witness ==
    /\ pc = "parsed"
    /\ IsZoneLine(line)
    /\ \E k \in 2..10 :
          /\ FirstKey(ZoneTail(line), k)
          /\ \E j \in (k + 1)..11 : Contains(ZoneTail(line), Keys[j]) /\ WellFormed(ZoneTail(line), j)
          /\ result.kind = Variants[k]

(* C3: parse_message returns none for the empty string, for every line that *)
(* begins with !I or !E whatever follows, and for every line that matches   *)
(* none of the system or zone patterns.                                     *)
C3_IgnoredLines ==
    (/\ pc = "parsed"
     /\ \/ line = ""
        \/ StartsWith(line, "!I")
        \/ StartsWith(line, "!E")
        \/ ~ (MatchesSystem(line) \/ MatchesZone(line)))
    => result = NoMsg

\* an error line whose remainder is a zone line with a key was parsed to none
C3_Witness ==
    /\ pc = "parsed"
    /\ StartsWith(line, "!I")
    /\ IsZoneLine(Slice(line, 3, Len(line)))
    /\ Contains(line, "POW")
    /\ result = NoMsg

(* C4: for a zone line whose payload contains POW (or MUT and neither POW   *)
(* nor a well-formed VOL), is_on (is_muted) is true exactly when the        *)
(* character 1 occurs in the text after the zone digits; the zone digits    *)
(* never influence it.                                                      *)
C4_OneAnywhere ==
    (pc = "parsed" /\ IsZoneLine(line)) =>
        LET p == ZoneTail(line) IN
        /\ Contains(p, "POW") =>
              result.kind = "ZonePower" /\ result.is_on = Contains(p, "1")
        /\ (Contains(p, "MUT") /\ ~ Contains(p, "POW") /\ ~ WellFormed(p, 2)) =>
              result.kind = "ZoneMute" /\ result.is_muted = Contains(p, "1")

\* a zone whose number contains a 1 was parsed as off
C4_Witness ==
    /\ pc = "parsed"
    /\ result.kind = "ZonePower"
    /\ Contains(ZoneDigits(line), "1")
    /\ ~ result.is_on

\* payload of a zone line that contains VOL, but no VOL followed by a signed integer
VolWithoutNumber(l) ==
    IsZoneLine(l) /\ Contains(ZoneTail(l), "VOL") /\ ~ WellFormed(ZoneTail(l), 2)

(* C5 as stated: a zone line whose payload contains VOL without a signed    *)
(* integer after it is discarded (none), whatever other keys it contains.   *)
(* Read in the claim's favour: only payloads without POW, where the VOL     *)
(* test is reached, and the other keys are the later ones the claim lists.  *)
C5_Original ==
    (pc = "parsed" /\ VolWithoutNumber(line) /\ ~ Contains(ZoneTail(line), "POW")) =>
        result = NoMsg

(* C5 as amended: such a line never yields a ZoneVolume; the VOL key is     *)
(* passed over and the other keys decide in dispatch order: the result is   *)
(* the variant of the first key present with a well-formed value, and none  *)
(* only when there is no such key.                                          *)
C5_VolPassedOver ==
    (pc = "parsed" /\ VolWithoutNumber(line)) =>
        LET p == ZoneTail(line)
            good == {k \in 1..11 : Contains(p, Keys[k]) /\ WellFormed(p, k)}
        IN /\ result.kind # "ZoneVolume"
           /\ good = {} => result = NoMsg
           /\ good # {} => result.kind = Variants[CHOOSE k \in good : \A j \in good : k <= j]

\* a VOL without a number was followed by MUT, and the line parsed as a mute
C5_Witness ==
    /\ pc = "parsed"
    /\ VolWithoutNumber(line)
    /\ result.kind = "ZoneMute"

(* C6: parse_message never returns a ZoneListeningMode for a zone line      *)
(* whose payload contains "?", and a payload with ALM, "?" and no other key *)
(* yields none.                                                             *)
C6_NoQueryEcho ==
    (pc = "parsed" /\ IsZoneLine(line) /\ Contains(ZoneTail(line), "?")) =>
        /\ result.kind # "ZoneListeningMode"
        /\ (/\ Contains(ZoneTail(line), "ALM")
            /\ \A k \in (1..11) \ {8} : ~ Contains(ZoneTail(line), Keys[k]))
           => result = NoMsg

\* the echo of a query that carries a mode number was parsed to none
C6_Witness ==
    /\ pc = "parsed"
    /\ IsZoneLine(line)
    /\ Contains(ZoneTail(line), "ALM3")
    /\ Contains(ZoneTail(line), "?")
    /\ result = NoMsg

(* C7 as stated: every zone message returned carries a zone that is         *)
(* positive (>= 1) and equals the decimal value of the digit run after the  *)
(* leading Z.                                                               *)
C7_Original ==
    (pc = "parsed" /\ result.kind \in ZoneKinds) =>
        /\ result.zone >= 1
        /\ StartsWith(line, "Z")
        /\ result.zone = StrToNat(ZoneDigits(line))

(* C7 as amended: every zone message returned carries a zone that is a      *)
(* non-negative integer, zero included, equal to the decimal value of the   *)
(* digit run after the leading Z.                                           *)
C7_ZoneIsDigitRun ==
    (pc = "parsed" /\ result.kind \in ZoneKinds) =>
        /\ result.zone >= 0
        /\ StartsWith(line, "Z")
        /\ ZoneDigits(line) # ""
        /\ result.zone = StrToNat(ZoneDigits(line))

\* a zone of two digits was returned
C7_Witness ==
    /\ pc = "parsed"
    /\ result.kind \in ZoneKinds
    /\ Len(ZoneDigits(line)) = 2
    /\ result.zone = 12

\* position i of p holds VOL followed by a signed integer, and its value
VolAt(p, i) ==
    /\ Slice(p, i, i + 2) = "VOL"
    /\ \/ At(p, i + 3) \in DigitChars
       \/ At(p, i + 3) = "-" /\ At(p, i + 4) \in DigitChars

VolValueAt(p, i) ==
    IF At(p, i + 3) = "-"
    THEN 0 - StrToNat(Slice(p, i + 4, i + 3 + DigitRun(p, i + 4)))
    ELSE StrToNat(Slice(p, i + 3, i + 2 + DigitRun(p, i + 3)))

(* C8 as stated: every ZoneVolume returned has volume_db within -90..0.     *)
C8_Original ==
    (pc = "parsed" /\ result.kind = "ZoneVolume") =>
        result.volume_db >= -90 /\ result.volume_db <= 0

(* C8 as amended: every ZoneVolume returned has as volume_db the signed     *)
(* decimal integer that follows the leftmost VOL of the payload that has    *)
(* one, whatever its value: the parser checks no range.                     *)
C8_VolumeAsWritten ==
    (pc = "parsed" /\ result.kind = "ZoneVolume") =>
        LET p == ZoneTail(line) IN
        \E i \in 1..Len(p) :
            /\ VolAt(p, i)
            /\ \A j \in 1..(i - 1) : ~ VolAt(p, j)
            /\ result.volume_db = VolValueAt(p, i)

\* a volume outside -90..0 was returned
C8_Witness ==
    /\ pc = "parsed"
    /\ result.kind = "ZoneVolume"
    /\ (result.volume_db > 0 \/ result.volume_db < -90)

\* a text field that survives the trip through key k's line: one line, not
\* empty, unchanged by strip(), and free of the keys tried before k
TextOK(t, k) ==
    /\ t # ""
    /\ Strip(t) = t
    /\ ~ Contains(t, "\n")
    /\ \A j \in 1..(k - 1) : ~ Contains(t, Keys[j])

WellFormedMsg(m) ==
    CASE m.kind = "SystemModel" -> Strip(m.model) = m.model
      [] m.kind = "InputCount" -> m.count >= 0
      [] m.kind = "InputName" ->
            /\ m.input_number \in 0..99
            /\ m.name # "" /\ Strip(m.name) = m.name /\ ~ Contains(m.name, "\n")
      [] m.kind \in {"ZonePower", "ZoneMute", "ZoneVolume"} -> m.zone >= 0
      [] m.kind = "ZoneInput" -> m.zone >= 0 /\ m.input_number >= 0
      [] m.kind = "ZoneAudioFormat" -> m.zone >= 0 /\ TextOK(m.format, 5)
      [] m.kind = "ZoneAudioChannels" -> m.zone >= 0 /\ TextOK(m.channels, 6)
      [] m.kind = "ZoneVideoResolution" -> m.zone >= 0 /\ TextOK(m.resolution, 7)
      [] m.kind = "ZoneListeningMode" ->
            /\ m.zone >= 0 /\ m.mode_number >= 0
            /\ m.mode_name = (IF m.mode_number \in 0..15 THEN mode_names[m.mode_number]
                              ELSE "Mode " \o IntToStr(m.mode_number))
      [] m.kind = "ZoneSampleRateInfo" -> m.zone >= 0 /\ TextOK(m.info, 9)
      [] m.kind = "ZoneSampleRate" -> m.zone >= 0 /\ m.rate_khz >= 0
      [] m.kind = "ZoneBitDepth" -> m.zone >= 0 /\ m.depth >= 0
      [] OTHER -> FALSE

(* C9 as stated: for every message of every documented kind, parse_message  *)
(* applied to the wire line built from it returns the message.              *)
C9_Original ==
    (pc = "parsed" /\ orig # NoMsg) => result = orig

(* C9 as amended: the round trip holds for the messages the wire format can *)
(* carry: numbers non-negative (volume_db any integer, input_number of an   *)
(* InputName 0..99), text fields of one line, unchanged by strip(), not     *)
(* empty (the model text may be empty) and, in zone messages, free of the   *)
(* keys tried before their own, and mode_name the name the parser gives     *)
(* mode_number.                                                             *)
C9_RoundTrip ==
    (pc = "parsed" /\ orig # NoMsg /\ WellFormedMsg(orig)) => result = orig

\* a sample-rate text made the trip
C9_Witness ==
    /\ pc = "parsed"
    /\ orig.kind = "ZoneSampleRateInfo"
    /\ WellFormedMsg(orig)
    /\ result = orig

(* C10: for a line Z<zone>ALM<n> the parsed mode_number is n and mode_name  *)
(* is the table entry for n in 0..15 (3 is Dolby Surround) and "Mode <n>"   *)
(* for every other n; the 16 table names are pairwise distinct.             *)
C10_ModeName ==
    /\ (/\ pc = "parsed"
        /\ orig.kind = "ZoneListeningMode"
        /\ orig.zone >= 0
        /\ orig.mode_number >= 0) =>
            /\ result.kind = "ZoneListeningMode"
            /\ result.zone = orig.zone
            /\ result.mode_number = orig.mode_number
            /\ result.mode_name =
                  (IF orig.mode_number \in 0..15 THEN mode_names[orig.mode_number]
                   ELSE "Mode " \o IntToStr(orig.mode_number))
            /\ (orig.mode_number = 3 => result.mode_name = "Dolby Surround")
    /\ \A a \in 0..15 : \A b \in 0..15 : a # b => mode_names[a] # mode_names[b]

\* a mode number off the table was named after its number
C10_Witness ==
    /\ pc = "parsed"
    /\ orig.kind = "ZoneListeningMode"
    /\ orig.mode_number = 99
    /\ result.kind = "ZoneListeningMode"
    /\ result.mode_name = "Mode 99"

-----------------------------------------------------------------------------
(* The command writer of the session: send_command (spec 4.3, 5).  Callers  *)
(* run concurrently; a call checks the connected flag, takes the write      *)
(* lock, writes the command and the line terminator, and releases the lock. *)

MaxCallers == 2    \* concurrent callers of send_command
MaxCalls == 3      \* send_command calls started in one behaviour

Callers == 1..MaxCallers

\* the protocol line terminator appended to every command
Terminator == ";"

\* raw commands handed to send_command
WriterCmds == {"Z1POW1", "Z2MUT0"}

IdleCall == [at |-> "idle", cmd |-> "", ret |-> "none", conn |-> FALSE, start |-> 0, wrote |-> 0]

\* send_command without the write lock
LockIgnored == TRUE

\* the write lock is free
LockFree == lock = 0

\* a failed write surfacing as an exception
FailedWriteRaises == "raise"

\* what send_command hands back when the write fails
FailedWrite == "false"

InitWriter ==
    /\ ParserIdle /\ DeviceIdle /\ SessionIdle /\ PlayerIdle
    /\ SetupIdle /\ RemoteIdle /\ ConfigIdle
    /\ ConnIdle
    /\ wire = ""
    /\ lock = 0
    /\ callers = [c \in Callers |-> IdleCall]
    /\ okCount = 0
    /\ calls = 0

WriterFrame ==
    UNCHANGED <<parserVars, deviceVars, sessionVars, playerVars, setupVars, remoteVars, configVars>>

\* a caller enters send_command(raw)
Call(c, raw) ==
    /\ callers[c].at = "idle"
    /\ calls < MaxCalls
    /\ callers' = [callers EXCEPT ![c] =
          [at |-> "check", cmd |-> raw, ret |-> "none", conn |-> FALSE,
           start |-> 0, wrote |-> 0]]
    /\ calls' = calls + 1
    /\ UNCHANGED <<connVars, wire, lock, okCount>>
    /\ WriterFrame

\* not connected: return false at once
CheckConnected(c) ==
    /\ callers[c].at = "check"
    /\ callers' = [callers EXCEPT ![c] =
          IF connected
          THEN [@ EXCEPT !.at = "wait", !.conn = TRUE]
          ELSE [@ EXCEPT !.at = "idle", !.ret = "false"]]
    /\ UNCHANGED <<connVars, wire, lock, okCount, calls>>
    /\ WriterFrame

Acquire(c) ==
    /\ callers[c].at = "wait"
    /\ LockFree
    /\ lock' = c
    /\ callers' = [callers EXCEPT ![c].at = "locked"]
    /\ UNCHANGED <<connVars, wire, okCount, calls>>
    /\ WriterFrame

\* the command's bytes go out, or the write fails on a socket that is gone
WriteBody(c) ==
    /\ callers[c].at = "locked"
    /\ IF sock = "open"
       THEN /\ wire' = wire \o callers[c].cmd
            /\ callers' = [callers EXCEPT ![c].at = "body", ![c].start = Len(wire),
                                          ![c].wrote = Len(callers[c].cmd)]
            /\ UNCHANGED lock
       ELSE /\ callers' = [callers EXCEPT ![c].at = "idle", ![c].ret = FailedWrite]
            /\ lock' = 0
            /\ UNCHANGED wire
    /\ UNCHANGED <<connVars, okCount, calls>>
    /\ WriterFrame

\* the terminator goes out, the lock is released, the call returns true
WriteTerminator(c) ==
    /\ callers[c].at = "body"
    /\ wire' = wire \o Terminator
    /\ lock' = 0
    /\ callers' = [callers EXCEPT ![c].at = "idle", ![c].ret = "true",
                                  ![c].wrote = @ + Len(Terminator)]
    /\ okCount' = okCount + 1
    /\ UNCHANGED <<connVars, calls>>
    /\ WriterFrame

\* a line is written whole (4.3): the socket changes between lines
MidLine == \E c \in Callers : callers[c].at = "body"

\* connect() succeeded
SessionUp ==
    /\ sock = "none"
    /\ connected' = TRUE
    /\ sock' = "open"
    /\ UNCHANGED writerVars
    /\ WriterFrame

\* disconnect(), or the read loop ending on a dead socket
SessionDown ==
    /\ sock # "none"
    /\ ~ MidLine
    /\ connected' = FALSE
    /\ sock' = "none"
    /\ UNCHANGED writerVars
    /\ WriterFrame

\* the peer goes away; the session has not noticed yet
PeerDrops ==
    /\ sock = "open"
    /\ ~ MidLine
    /\ sock' = "dead"
    /\ UNCHANGED <<connected, writerVars>>
    /\ WriterFrame

NextWriter ==
    \/ \E c \in Callers, raw \in WriterCmds : Call(c, raw)
    \/ \E c \in Callers : CheckConnected(c)
    \/ \E c \in Callers : Acquire(c)
    \/ \E c \in Callers : WriteBody(c)
    \/ \E c \in Callers : WriteTerminator(c)
    \/ SessionUp
    \/ SessionDown
    \/ PeerDrops

SpecWriter == InitWriter /\ [][NextWriter]_vars

\* position of the first terminator of w at or after i, 0 when there is none
RECURSIVE TermAt(_, _)
TermAt(w, i) ==
    IF i > Len(w) THEN 0
    ELSE IF At(w, i) = Terminator THEN i ELSE TermAt(w, i + 1)

\* the terminated lines of the byte stream w, in order, without their terminators
RECURSIVE WireLines(_)
WireLines(w) ==
    IF TermAt(w, 1) = 0 THEN <<>>
    ELSE <<Slice(w, 1, TermAt(w, 1) - 1)>> \o WireLines(Slice(w, TermAt(w, 1) + 1, Len(w)))

\* the bytes after the last terminator of w
RECURSIVE WireRest(_)
WireRest(w) ==
    IF TermAt(w, 1) = 0 THEN w ELSE WireRest(Slice(w, TermAt(w, 1) + 1, Len(w)))

(* C11: under every interleaving of concurrent send_command callers the    *)
(* bytes on the wire are a sequence of complete terminated command lines,  *)
(* one per command that returned true; bytes of two commands are never     *)
(* mixed within a line (what follows the last terminator is the whole      *)
(* command of the one caller that is writing its line).                    *)
C11_WritesSerialized ==
    /\ \A i \in 1..Len(WireLines(wire)) : WireLines(wire)[i] \in WriterCmds
    /\ Len(WireLines(wire)) = okCount
    /\ \/ WireRest(wire) = ""
       \/ \E c \in Callers : callers[c].at = "body" /\ WireRest(wire) = callers[c].cmd

\* a line is on the wire while one caller is mid-line and another waits for the lock
C11_Witness ==
    /\ okCount >= 1
    /\ \E c, d \in Callers :
          /\ callers[c].at = "body"
          /\ callers[d].at = "wait"
          /\ callers[c].cmd # callers[d].cmd

(* C12: send_command returns false and writes nothing whenever the session *)
(* is not connected when it is called, returns false (and raises nothing)  *)
(* when the write fails, and returns true only when the full terminated    *)
(* line was written.                                                       *)
C12_SendResult ==
    \A c \in Callers :
        /\ callers[c].ret \in {"none", "true", "false"}
        /\ (callers[c].at = "idle" /\ callers[c].cmd # "" /\ ~ callers[c].conn)
              => callers[c].ret = "false"
        /\ callers[c].ret # "true" /\ callers[c].at = "idle" => callers[c].wrote = 0
        /\ callers[c].ret = "true" =>
              /\ callers[c].conn
              /\ callers[c].wrote = Len(callers[c].cmd \o Terminator)
              /\ Slice(wire, callers[c].start + 1, callers[c].start + callers[c].wrote)
                    = callers[c].cmd \o Terminator

\* one call was refused because the session was not connected, another lost its
\* write to a dropped socket, and a line has been written
C12_Witness ==
    /\ okCount >= 1
    /\ \E c, d \in Callers :
          /\ callers[c].ret = "false" /\ ~ callers[c].conn
          /\ callers[d].ret = "false" /\ callers[d].conn

-----------------------------------------------------------------------------
(* The session: connect, the read loop, the supervising retry, disconnect  *)
(* (spec 4.3, 5, 7).                                                       *)

MaxLines == 2      \* lines the device sends in one behaviour
MaxAttempts == 2   \* connect() calls the retry makes after a drop
MaxDrops == 1      \* socket drops in one behaviour

\* lines the device sends: two zone broadcasts, an unknown line, an error line
SessionLines == {"Z1POW1", "Z2AIFDolby", "GARBAGE", "!I0"}

Op(name) == <<lastOp[2], name>>

\* the read loop giving up on a line it cannot parse
OnParseMissStop == "stopped"

\* the read loop after a line that matches no pattern
OnParseMiss == "running"

\* a session without a supervising retry
SuperviseOff == "idle"

\* the supervising task once the read loop has ended on an error
Supervise == "retrying"

\* closing whatever the socket field holds
NeedsCloseAlways(s) == TRUE

\* disconnect closes the socket if there is one
NeedsClose(s) == s # "none"

InitSession ==
    /\ ParserIdle /\ WriterIdle /\ PlayerIdle
    /\ SetupIdle /\ RemoteIdle /\ ConfigIdle
    /\ ConnIdle
    /\ SessionIdle
    /\ configured \in SUBSET DeviceZones
    /\ zones = [z \in configured |-> ZoneState]
    /\ lastMsg = NoMsg
    /\ lastEmits = 0
    /\ emits = 0
    /\ steps = 0
    /\ repeat = FALSE

SessionFrame ==
    UNCHANGED <<parserVars, writerVars, playerVars, configured, setupVars, remoteVars, configVars>>

\* connect(): one attempt, the socket is opened and the read loop started
Connect(ok) ==
    /\ sock = "none"
    /\ sup = "idle"
    /\ IF ok
       THEN connected' = TRUE /\ sock' = "open" /\ rl' = "running"
       ELSE UNCHANGED <<connected, sock, rl>>
    /\ stopReq' = FALSE
    /\ raised' = FALSE
    /\ lastOp' = Op(IF ok THEN "connect_ok" ELSE "connect_fail")
    /\ UNCHANGED <<inbox, sup, attempts, drops, recvd, lastLine>>
    /\ UNCHANGED <<zones, lastMsg, lastEmits, emits, steps, repeat>>
    /\ SessionFrame

\* the device sends a line
DeviceSends(l) ==
    /\ sock = "open"
    /\ recvd + Len(inbox) < MaxLines
    /\ inbox' = Append(inbox, l)
    /\ lastOp' = Op("device_sends")
    /\ UNCHANGED <<connVars, rl, stopReq, sup, attempts, drops, recvd, lastLine, raised>>
    /\ UNCHANGED <<zones, lastMsg, lastEmits, emits, steps, repeat>>
    /\ SessionFrame

\* the socket drops (error or EOF at the peer)
Drop ==
    /\ sock = "open"
    /\ drops < MaxDrops
    /\ sock' = "dead"
    /\ drops' = drops + 1
    /\ attempts' = 0
    /\ lastOp' = Op("drop")
    /\ UNCHANGED <<connected, rl, inbox, stopReq, sup, recvd, lastLine, raised>>
    /\ UNCHANGED <<zones, lastMsg, lastEmits, emits, steps, repeat>>
    /\ SessionFrame

\* the read loop takes the next complete line: parse, fold, emit
ReadLine ==
    /\ rl = "running"
    /\ inbox # <<>>
    /\ \E m \in {parse_message(Head(inbox))} :
          IF m.kind \in ZoneKinds
          THEN /\ zones' = [z \in DOMAIN zones \cup {m.zone} |->
                         IF z = m.zone THEN Fold(ZoneOf(zones, z), m) ELSE zones[z]]
               /\ lastMsg' = m
               /\ lastEmits' = EmitCount(m)
               /\ emits' = emits + EmitCount(m)
               /\ steps' = steps + 1
               /\ repeat' = (m = lastMsg)
               /\ rl' = "running"
          ELSE /\ UNCHANGED <<zones, lastMsg, lastEmits, emits, steps, repeat>>
               /\ rl' = OnParseMiss
    /\ lastLine' = Head(inbox)
    /\ inbox' = Tail(inbox)
    /\ recvd' = recvd + 1
    /\ raised' = FALSE
    /\ lastOp' = Op("read")
    /\ UNCHANGED <<connVars, stopReq, sup, attempts, drops>>
    /\ SessionFrame

\* the read loop meets the error or EOF: it ends and the session is
\* disconnected; lines still unread may be lost with the socket
ReadEOF ==
    /\ rl = "running"
    /\ sock = "dead"
    /\ inbox' = <<>>
    /\ rl' = "stopped"
    /\ connected' = FALSE
    /\ sock' = "none"
    /\ sup' = Supervise
    /\ raised' = FALSE
    /\ lastOp' = Op("eof")
    /\ UNCHANGED <<stopReq, attempts, drops, recvd, lastLine>>
    /\ UNCHANGED <<zones, lastMsg, lastEmits, emits, steps, repeat>>
    /\ SessionFrame

\* the supervising task calls connect() again
Retry(ok) ==
    /\ sup = "retrying"
    /\ attempts < MaxAttempts
    /\ attempts' = attempts + 1
    /\ IF ok
       THEN connected' = TRUE /\ sock' = "open" /\ rl' = "running" /\ sup' = "idle"
       ELSE UNCHANGED <<connected, sock, rl, sup>>
    /\ raised' = FALSE
    /\ lastOp' = Op(IF ok THEN "retry_ok" ELSE "retry_fail")
    /\ UNCHANGED <<inbox, stopReq, drops, recvd, lastLine>>
    /\ UNCHANGED <<zones, lastMsg, lastEmits, emits, steps, repeat>>
    /\ SessionFrame

\* disconnect(): cancel the read loop and the retry, close the socket if open
Disconnect ==
    /\ stopReq' = TRUE
    /\ raised' = (NeedsClose(sock) /\ sock = "none")
    /\ connected' = FALSE
    /\ sock' = "none"
    /\ rl' = "stopped"
    /\ sup' = "idle"
    /\ inbox' = <<>>
    /\ lastOp' = Op("disconnect")
    /\ UNCHANGED <<attempts, drops, recvd, lastLine>>
    /\ UNCHANGED <<zones, lastMsg, lastEmits, emits, steps, repeat>>
    /\ SessionFrame

NextSession ==
    \/ \E ok \in BOOLEAN : Connect(ok)
    \/ \E l \in SessionLines : DeviceSends(l)
    \/ Drop
    \/ ReadLine
    \/ ReadEOF
    \/ \E ok \in BOOLEAN : Retry(ok)
    \/ Disconnect

SpecSession == InitSession /\ [][NextSession]_vars

\* the read loop and the supervising retry are tasks of the event loop: the
\* loop notices a dead socket, the retry calls connect() while it is pending
SpecSessionFair ==
    /\ SpecSession
    /\ WF_vars(ReadEOF)
    /\ WF_vars(\E ok \in BOOLEAN : Retry(ok))

\* the line read last was a zone broadcast and it went through parse, fold and emit
FoldedAsParsed ==
    LET m == parse_message(lastLine)
    IN  (lastOp[2] = "read" /\ m.kind \in ZoneKinds) =>
            /\ lastMsg = m
            /\ m.zone \in DOMAIN zones
            /\ zones[m.zone] = Fold(zones[m.zone], m)
            /\ lastEmits = EmitCount(m)
            /\ rl = "running"

(* C13: after the socket drops the read loop ends and the session is       *)
(* disconnected; with the retry task scheduled fairly, connect() is called *)
(* at least once (unless disconnect was requested); when a retry succeeds  *)
(* the session is connected with the read loop running, and every line     *)
(* read after that is parsed and folded as before.                         *)
C13_Reconnect ==
    /\ (sock = "dead") ~> (~ connected /\ rl = "stopped" /\ sock = "none")
    /\ (lastOp[2] = "eof") ~> (attempts >= 1 \/ stopReq)
    /\ [](lastOp[2] = "retry_ok" => connected /\ sock = "open" /\ rl = "running")
    /\ [](drops >= 1 => FoldedAsParsed)

\* after a drop and a successful retry a zone broadcast has been read and folded
C13_Witness ==
    /\ drops >= 1
    /\ attempts >= 1
    /\ connected
    /\ lastOp[2] = "read"
    /\ lastMsg = parse_message(lastLine)
    /\ lastMsg.kind \in ZoneKinds

(* C14: a received line that matches no known pattern, or an error line,   *)
(* is skipped: reading it changes no zone state, emits nothing, raises     *)
(* nothing and leaves the read loop running and the session connected;     *)
(* every well-formed line read after it is parsed, folded and emitted.     *)
C14_UnknownLineSkipped ==
    /\ [][(recvd' = recvd + 1 /\ parse_message(lastLine') = NoMsg) =>
              /\ UNCHANGED <<zones, lastMsg, lastEmits, emits, steps, repeat>>
              /\ UNCHANGED <<connected, sock>>
              /\ rl' = "running"
              /\ raised' = FALSE]_vars
    /\ []FoldedAsParsed

\* of two lines read, the first was skipped and the second folded and emitted
C14_Witness ==
    /\ recvd = 2
    /\ steps = 1
    /\ drops = 0
    /\ lastOp[2] = "read"
    /\ lastMsg = parse_message(lastLine)
    /\ lastEmits = 1

(* C15: disconnect() is safe in every session state and idempotent: it     *)
(* raises nothing and leaves the session disconnected with no socket, the  *)
(* read loop and the retry stopped; called when never connected, after a   *)
(* failed connect, or right after a disconnect, it leaves the same state   *)
(* as the first call.                                                      *)
C15_DisconnectIdempotent ==
    /\ [](lastOp[2] = "disconnect" =>
              /\ ~ connected
              /\ sock = "none"
              /\ rl = "stopped"
              /\ sup = "idle"
              /\ ~ raised)
    /\ [][(lastOp'[2] = "disconnect" /\ lastOp[2] \in {"init", "connect_fail", "disconnect"}) =>
              UNCHANGED <<connected, sock, rl, sup, inbox, raised, deviceVars>>]_vars

\* disconnect was called a second time, right after a disconnect
C15_Witness == lastOp = <<"disconnect", "disconnect">> /\ ~ raised /\ sock = "none"

-----------------------------------------------------------------------------
(* C16: when the device handles the same emitting message twice in a row,  *)
(* the zone state after the second fold is identical to the state after    *)
(* the first, and the second call still emits: each of the two calls adds  *)
(* one update notification.  A message that emits does so whether or not   *)
(* its fold changed a value.                                               *)
C16_FoldTwice ==
    /\ [][(steps' = steps + 1 /\ lastMsg' = lastMsg /\ lastEmits >= 1) =>
              /\ zones' = zones
              /\ lastEmits' = lastEmits
              /\ emits' = emits + 1]_vars
    /\ [][(steps' = steps + 1 /\ zones' = zones) => emits' = emits + EmitCount(lastMsg')]_vars
    /\ [](repeat => lastEmits = EmitCount(lastMsg) /\ steps >= 2)

\* the same power message was handled twice and two notifications went out
C16_Witness ==
    /\ repeat
    /\ steps = 2
    /\ emits = 2
    /\ lastMsg.kind = "ZonePower"
    /\ zones[lastMsg.zone].power = lastMsg.is_on

-----------------------------------------------------------------------------
(* media_player.py: AnthemMediaPlayer.handle_command.  A percentage is a   *)
(* float in the code; here it is an exact number of hundredths, so 50.0 is *)
(* 5000 and 0.5 is 50.                                                     *)

MaxPct == 102      \* whole percentages -2..MaxPct reach the VOLUME command

\* hundredths in one unit of percentage
Unit == 100

Max(a, b) == IF a >= b THEN a ELSE b

Min(a, b) == IF a <= b THEN a ELSE b

\* int(a / b) for b > 0: the quotient cut towards zero
TruncDiv(a, b) == IF a >= 0 THEN a \div b ELSE -((-a) \div b)

db_range == 90

\* _percentage_to_db without the final clamp
_percentage_to_db_unclamped(percentage) ==
    TruncDiv(percentage * db_range - 90 * Unit, Unit)

\* db_value = int((percentage * db_range) - 90); return max(-90, min(0, db_value))
_percentage_to_db(percentage) ==
    LET db_value == TruncDiv(percentage * db_range - 90 * Unit, Unit)
    IN  Max(-90, Min(0, db_value))

source_list ==
    <<"HDMI 1", "HDMI 2", "HDMI 3", "HDMI 4", "HDMI 5", "HDMI 6", "HDMI 7", "HDMI 8",
      "Analog 1", "Analog 2", "Digital 1", "Digital 2", "USB", "Network", "ARC">>

\* a lookup that falls back to the first input for a name the map does not hold
_get_input_number_default(source_name) ==
    IF source_name = "Analog 1" THEN 9 ELSE 1

\* input_map.get(source_name): the input number, 0 standing for None
_get_input_number(source_name) ==
    IF \E i \in 1..Len(source_list) : source_list[i] = source_name
    THEN CHOOSE i \in 1..Len(source_list) : source_list[i] = source_name
    ELSE 0

\* what the client call did: returned true, returned false, or raised
Outcomes == {"true", "false", "raise"}

ClientCall(op, arg, zone) == [op |-> op, arg |-> arg, zone |-> zone]

\* success = await self._client.<op>(...); return OK if success else SERVER_ERROR
Awaited(call, outcome) ==
    IF outcome = "raise"
    THEN [status |-> "none", calls |-> <<call>>, exc |-> TRUE]
    ELSE [status |-> IF outcome = "true" THEN "OK" ELSE "SERVER_ERROR",
          calls |-> <<call>>, exc |-> FALSE]

Returned(status) == [status |-> status, calls |-> <<>>, exc |-> FALSE]

\* the body of the try block of handle_command
CommandBody(cmd_id, params, zone, muted, outcome) ==
    CASE cmd_id = "ON" -> Awaited(ClientCall("power_on", 0, zone), outcome)
      [] cmd_id = "OFF" -> Awaited(ClientCall("power_off", 0, zone), outcome)
      [] cmd_id = "VOLUME" ->
            IF "volume" \in params.keys
            THEN IF params.numeric
                 THEN Awaited(ClientCall("set_volume", _percentage_to_db(params.volume), zone),
                              outcome)
                 ELSE [status |-> "none", calls |-> <<>>, exc |-> TRUE]
            ELSE Returned("BAD_REQUEST")
      [] cmd_id = "VOLUME_UP" -> Awaited(ClientCall("volume_up", 0, zone), outcome)
      [] cmd_id = "VOLUME_DOWN" -> Awaited(ClientCall("volume_down", 0, zone), outcome)
      [] cmd_id = "MUTE_TOGGLE" -> Awaited(ClientCall("set_mute", ~ muted, zone), outcome)
      [] cmd_id = "MUTE" -> Awaited(ClientCall("set_mute", TRUE, zone), outcome)
      [] cmd_id = "UNMUTE" -> Awaited(ClientCall("set_mute", FALSE, zone), outcome)
      [] cmd_id = "SELECT_SOURCE" ->
            IF "source" \in params.keys
            THEN IF _get_input_number(params.source) # 0
                 THEN Awaited(ClientCall("select_input", _get_input_number(params.source), zone),
                              outcome)
                 ELSE Returned("BAD_REQUEST")
            ELSE Returned("BAD_REQUEST")
      [] OTHER -> Returned("NOT_IMPLEMENTED")

\* handle_command without its except clause
handle_command_uncaught(cmd_id, params, zone, muted, outcome) ==
    CommandBody(cmd_id, params, zone, muted, outcome)

\* try: ... except Exception: return SERVER_ERROR
handle_command(cmd_id, params, zone, muted, outcome) ==
    LET r == CommandBody(cmd_id, params, zone, muted, outcome)
    IN  IF r.exc THEN [r EXCEPT !.status = "SERVER_ERROR", !.exc = FALSE] ELSE r

\* command ids: the nine the entity supports and two it does not
PlayerCommands ==
    {"ON", "OFF", "VOLUME", "VOLUME_UP", "VOLUME_DOWN", "MUTE_TOGGLE", "MUTE", "UNMUTE",
     "SELECT_SOURCE", "PLAY_PAUSE", "NEXT"}

SupportedCommands == PlayerCommands \ {"PLAY_PAUSE", "NEXT"}

\* percentages handed over as the volume parameter, in hundredths: the whole
\* percentages -2..MaxPct and some fractions around 0, 1 and 100
PlayerVolumes ==
    {p * Unit : p \in (-2)..MaxPct}
    \cup {-150, -1, 1, 2, 50, 99, 101, 111, 112, 150, 9950, 9999, 10001}

\* source names: the fifteen of the list, and names the map does not hold
PlayerSources ==
    {source_list[i] : i \in 1..Len(source_list)} \cup {"", "Phono", "hdmi 1", "HDMI 9"}

\* params: None or {} (no keys), a volume (a number, or a value float() rejects),
\* a source name
NoParams == [keys |-> {}, numeric |-> FALSE, volume |-> 0, source |-> ""]

PlayerParams ==
    {NoParams}
    \cup {[keys |-> {"volume"}, numeric |-> TRUE, volume |-> v, source |-> ""] :
             v \in PlayerVolumes}
    \cup {[keys |-> {"volume"}, numeric |-> FALSE, volume |-> 0, source |-> ""]}
    \cup {[keys |-> {"source"}, numeric |-> FALSE, volume |-> 0, source |-> s] :
             s \in PlayerSources}

InitPlayer ==
    /\ ParserIdle /\ DeviceIdle /\ ConnIdle /\ WriterIdle /\ SessionIdle
    /\ SetupIdle /\ RemoteIdle /\ ConfigIdle
    /\ mpZone \in 1..MaxZone
    /\ mpMuted = FALSE
    /\ mpLast = [cmd_id |-> "none"]
    /\ mpAttrs = InitialAttrs
    /\ mpSent = {}

PlayerFrame ==
    UNCHANGED <<parserVars, deviceVars, connVars, writerVars, sessionVars, setupVars, remoteVars,
                configVars>>

\* a handler that sets the mute attribute itself when the client call succeeded
MutedOptimistic(muted, r) ==
    IF r.calls # <<>> /\ r.calls[1].op = "set_mute" /\ r.status = "OK"
    THEN r.calls[1].arg ELSE muted

\* the mute attribute after handle_command: the handler writes no attribute
MutedAfterCommand(muted, r) == muted

\* the remote sends a command to the entity
HandleCommand(cmd_id, params, outcome) ==
    /\ mpLast.cmd_id = "none"
    /\ LET r == handle_command(cmd_id, params, mpZone, mpMuted, outcome)
       IN  /\ mpLast' = [cmd_id |-> cmd_id, params |-> params, outcome |-> outcome,
                         muted |-> mpMuted, status |-> r.status, calls |-> r.calls,
                         raised |-> r.exc,
                         again |-> (cmd_id = "MUTE_TOGGLE" /\ mpSent # {})]
           /\ mpMuted' = MutedAfterCommand(mpMuted, r)
           /\ mpSent' = IF cmd_id = "MUTE_TOGGLE"
                        THEN mpSent \cup {r.calls[1].arg} ELSE mpSent
    /\ UNCHANGED <<mpZone, mpAttrs>>
    /\ PlayerFrame

\* the status has gone back to the remote
CommandDone ==
    /\ mpLast.cmd_id # "none"
    /\ mpLast' = [cmd_id |-> "none"]
    /\ UNCHANGED <<mpZone, mpMuted, mpAttrs, mpSent>>
    /\ PlayerFrame

\* _on_device_update: the zone state's mute flag replaces the attribute
OnDeviceUpdate(muted) ==
    /\ mpLast.cmd_id = "none"
    /\ mpMuted' = muted
    /\ mpSent' = {}
    /\ UNCHANGED <<mpZone, mpLast, mpAttrs>>
    /\ PlayerFrame

NextPlayer ==
    \/ \E cmd_id \in PlayerCommands, params \in PlayerParams, outcome \in Outcomes :
          HandleCommand(cmd_id, params, outcome)
    \/ CommandDone
    \/ \E muted \in BOOLEAN : OnDeviceUpdate(muted)

SpecPlayer == InitPlayer /\ [][NextPlayer]_vars

\* the last call was a VOLUME command with a number as its volume parameter
VolumeGiven ==
    /\ mpLast.cmd_id = "VOLUME"
    /\ "volume" \in mpLast.params.keys
    /\ mpLast.params.numeric

(* C17: for the VOLUME command every percentage at or below 0 is sent as   *)
(* exactly -90 dB, every percentage at or above 100 as exactly 0 dB, and   *)
(* for every percentage the dB value passed to set_volume is in [-90, 0].  *)
C17_VolumeClamped ==
    VolumeGiven =>
        /\ Len(mpLast.calls) = 1
        /\ mpLast.calls[1].op = "set_volume"
        /\ mpLast.calls[1].arg >= -90
        /\ mpLast.calls[1].arg <= 0
        /\ mpLast.params.volume <= 0 => mpLast.calls[1].arg = -90
        /\ mpLast.params.volume >= 100 * Unit => mpLast.calls[1].arg = 0

\* a percentage below 0 went out as -90 dB
C17_Witness ==
    /\ VolumeGiven
    /\ mpLast.params.volume < 0
    /\ mpLast.calls[1].arg = -90

\* round(n / d) for n >= 0, d > 0: to the nearest integer, a tie to the even one
Round(n, d) ==
    LET q == n \div d
        r == n % d
    IN  IF 2 * r < d THEN q
        ELSE IF 2 * r > d THEN q + 1
        ELSE IF q % 2 = 0 THEN q ELSE q + 1

\* the dB value the command encoder is specified to produce (spec 4.5)
SpecifiedDb(pct) == Max(-90, Min(0, Round(pct * 90, 100) - 90))

(* C18: for every whole percentage pct in 0..100 the dB value the VOLUME   *)
(* command passes to set_volume equals round(pct * 90 / 100) - 90 clamped  *)
(* to [-90, 0]; 50 percent is -45 dB.                                      *)
C18_Original ==
    (VolumeGiven /\ \E pct \in 0..100 : mpLast.params.volume = pct * Unit) =>
        /\ Len(mpLast.calls) = 1
        /\ mpLast.calls[1].arg = SpecifiedDb(mpLast.params.volume \div Unit)

\* the source name is one of the fifteen the input map holds
KnownSource(name) == \E i \in 1..Len(source_list) : source_list[i] = name

\* the last call lacked the parameter its command needs, or named an unknown source
BadParameter ==
    \/ mpLast.cmd_id = "VOLUME" /\ "volume" \notin mpLast.params.keys
    \/ mpLast.cmd_id = "SELECT_SOURCE" /\ "source" \notin mpLast.params.keys
    \/ /\ mpLast.cmd_id = "SELECT_SOURCE"
       /\ "source" \in mpLast.params.keys
       /\ ~ KnownSource(mpLast.params.source)

(* C19: a VOLUME command without a volume parameter, and a SELECT_SOURCE   *)
(* command without a source or with a source name the input map does not   *)
(* hold, return BAD_REQUEST without any client call; BAD_REQUEST is        *)
(* returned in no other case: with a valid parameter a client call that    *)
(* fails gives SERVER_ERROR.                                               *)
C19_BadRequest ==
    mpLast.cmd_id # "none" =>
        /\ BadParameter => mpLast.status = "BAD_REQUEST" /\ mpLast.calls = <<>>
        /\ mpLast.status = "BAD_REQUEST" => BadParameter
        /\ (~ BadParameter /\ Len(mpLast.calls) = 1 /\ mpLast.outcome # "true")
              => mpLast.status = "SERVER_ERROR"

\* a source name that is not in the map was refused while the client would have failed
C19_Witness ==
    /\ mpLast.cmd_id = "SELECT_SOURCE"
    /\ "source" \in mpLast.params.keys
    /\ mpLast.params.source = "Phono"
    /\ mpLast.outcome = "false"
    /\ mpLast.status = "BAD_REQUEST"
    /\ mpLast.calls = <<>>

\* the client method each supported command calls
ClientOp ==
    [ON |-> "power_on", OFF |-> "power_off", VOLUME |-> "set_volume",
     VOLUME_UP |-> "volume_up", VOLUME_DOWN |-> "volume_down", MUTE_TOGGLE |-> "set_mute",
     MUTE |-> "set_mute", UNMUTE |-> "set_mute", SELECT_SOURCE |-> "select_input"]

\* the last call was a supported command with the parameter it needs
ValidCommand ==
    /\ mpLast.cmd_id \in SupportedCommands
    /\ ~ BadParameter
    /\ mpLast.cmd_id = "VOLUME" => mpLast.params.numeric

(* C20: handle_command never raises to its caller; for a supported command *)
(* with valid parameters it makes exactly one client call, for the zone of *)
(* the entity, and returns OK if and only if that call returned true,      *)
(* SERVER_ERROR if it returned false or raised; for a command id it does   *)
(* not support it returns NOT_IMPLEMENTED without any client call.         *)
C20_HandleCommand ==
    mpLast.cmd_id # "none" =>
        /\ ~ mpLast.raised
        /\ mpLast.status \in {"OK", "SERVER_ERROR", "BAD_REQUEST", "NOT_IMPLEMENTED"}
        /\ ValidCommand =>
              /\ Len(mpLast.calls) = 1
              /\ mpLast.calls[1].op = ClientOp[mpLast.cmd_id]
              /\ mpLast.calls[1].zone = mpZone
              /\ mpLast.status = "OK" <=> mpLast.outcome = "true"
              /\ mpLast.outcome \in {"false", "raise"} => mpLast.status = "SERVER_ERROR"
        /\ mpLast.cmd_id \notin SupportedCommands =>
              mpLast.status = "NOT_IMPLEMENTED" /\ mpLast.calls = <<>>

\* the client call of a supported command raised and SERVER_ERROR went back
C20_Witness ==
    /\ mpLast.cmd_id = "MUTE_TOGGLE"
    /\ mpLast.outcome = "raise"
    /\ Len(mpLast.calls) = 1
    /\ mpLast.status = "SERVER_ERROR"
    /\ ~ mpLast.raised

-----------------------------------------------------------------------------
(* setup_flow.py: AnthemSetupFlow.query_device.  The test device is the    *)
(* environment: each of its calls returns or raises as the step's input    *)
(* says; the calls made on it are recorded in order.                       *)

MaxPolls == 3      \* polls of the cached model that fit in the response window

\* input_values as the form delivers them
SetupHosts == {"", "  ", "10.0.0.5", " 10.0.0.6 "}

\* the port is a free text field
SetupPorts == {"14999", "23", "abc"}

\* the ids of the zones dropdown
SetupZones == {"1", "2", "3"}

\* int(s) returns for these strings, and raises ValueError otherwise
IntParses(s) == s # "" /\ DigitRun(s, 1) = Len(s)

\* a flow that tries the connection again after a refusal
AfterRefusalRetry == "connect"

\* where query_device goes when connect() returned false: return, via finally
AfterRefusal == "finally"

\* a flow that treats the silent window as a failure
OnSilenceFail == "OTHER"

\* what query_device returns when the window ends, with or without a response
OnSilence == "config"

\* an except clause that returns without the finally block
AfterRaiseLeave == "done"

\* where query_device goes when a call in the try block raised
AfterRaise == "finally"

InitSetup ==
    /\ ParserIdle /\ DeviceIdle /\ ConnIdle /\ WriterIdle /\ SessionIdle /\ PlayerIdle
    /\ RemoteIdle /\ ConfigIdle
    /\ setup = [at |-> "none"]

SetupFrame ==
    UNCHANGED <<parserVars, deviceVars, connVars, writerVars, sessionVars, playerVars,
                remoteVars, configVars>>

\* lines 90-121: the host check, int() of port and zones, the test device
QueryDevice(host, port, zones_count) ==
    /\ setup.at = "none"
    /\ setup' =
          [host |-> host, port |-> port, zones |-> zones_count, trace |-> <<>>, polls |-> 0,
           connected |-> "none", received |-> FALSE, raisedIn |-> "none",
           ret |-> "none",
           at |-> IF Strip(host) = "" \/ ~ IntParses(port) \/ ~ IntParses(zones_count)
                  THEN "done" ELSE "connect",
           created |-> Strip(host) # "" /\ IntParses(port) /\ IntParses(zones_count),
           result |-> IF Strip(host) = "" THEN "form"
                      ELSE IF ~ IntParses(port) \/ ~ IntParses(zones_count) THEN "raised"
                      ELSE "none"]
    /\ SetupFrame

\* lines 124-130: connection_successful = await test_device.connect()
SetupConnect(outcome) ==
    /\ setup.at = "connect"
    /\ setup' =
          [setup EXCEPT
              !.trace = Append(@, "connect"),
              !.connected = outcome,
              !.raisedIn = IF outcome = "raise" THEN "connect" ELSE @,
              !.ret = CASE outcome = "false" -> "CONNECTION_REFUSED"
                        [] outcome = "raise" -> "OTHER"
                        [] OTHER -> @,
              !.at = CASE outcome = "false" -> AfterRefusal
                       [] outcome = "raise" -> AfterRaise
                       [] OTHER -> "query_model"]
    /\ SetupFrame

\* line 133: await test_device.query_model()
SetupQueryModel(raises) ==
    /\ setup.at = "query_model"
    /\ setup' =
          [setup EXCEPT
              !.trace = Append(@, "query_model"),
              !.raisedIn = IF raises THEN "query_model" ELSE @,
              !.ret = IF raises THEN "OTHER" ELSE @,
              !.at = IF raises THEN AfterRaise ELSE "query_power"]
    /\ SetupFrame

\* line 135: await test_device.query_power(1)
SetupQueryPower(raises) ==
    /\ setup.at = "query_power"
    /\ setup' =
          [setup EXCEPT
              !.trace = Append(@, "query_power"),
              !.raisedIn = IF raises THEN "query_power" ELSE @,
              !.ret = IF raises THEN "OTHER" ELSE @,
              !.at = IF raises THEN AfterRaise ELSE "poll"]
    /\ SetupFrame

\* lines 142-149: one turn of the polling loop; cached is what
\* get_cached_state("model") gives at that moment
SetupPoll(cached) ==
    /\ setup.at = "poll"
    /\ setup' =
          IF setup.polls >= MaxPolls
          THEN [setup EXCEPT !.at = "return"]
          ELSE IF cached # ""
               THEN [setup EXCEPT !.received = TRUE, !.at = "return"]
               ELSE [setup EXCEPT !.polls = @ + 1]
    /\ SetupFrame

\* lines 151-157: return device_config
SetupReturn ==
    /\ setup.at = "return"
    /\ setup' = [setup EXCEPT !.ret = OnSilence, !.at = "finally"]
    /\ SetupFrame

\* lines 162-163: finally: await test_device.disconnect(); the value goes back
SetupFinally ==
    /\ setup.at = "finally"
    /\ setup' = [setup EXCEPT !.trace = Append(@, "disconnect"), !.result = setup.ret,
                              !.at = "done"]
    /\ SetupFrame

NextSetup ==
    \/ \E host \in SetupHosts, port \in SetupPorts, zones_count \in SetupZones :
          QueryDevice(host, port, zones_count)
    \/ \E outcome \in Outcomes : SetupConnect(outcome)
    \/ \E raises \in BOOLEAN : SetupQueryModel(raises)
    \/ \E raises \in BOOLEAN : SetupQueryPower(raises)
    \/ \E cached \in {"", "MRX 1120"} : SetupPoll(cached)
    \/ SetupReturn
    \/ SetupFinally

SpecSetup == InitSetup /\ [][NextSetup]_vars

\* the number of times call occurs in the trace t
RECURSIVE Count(_, _)
Count(t, call) ==
    IF t = <<>> THEN 0
    ELSE (IF Head(t) = call THEN 1 ELSE 0) + Count(Tail(t), call)

\* the position of the first occurrence of call in t, 0 when there is none
RECURSIVE IndexOf(_, _)
IndexOf(t, call) ==
    IF t = <<>> THEN 0
    ELSE IF Head(t) = call THEN 1
    ELSE IF IndexOf(Tail(t), call) = 0 THEN 0 ELSE 1 + IndexOf(Tail(t), call)

(* C21: in one query_device call connect() is invoked at most once on the  *)
(* test device; when it returned false the flow sends neither query_model  *)
(* nor query_power and returns CONNECTION_REFUSED; when it returned true   *)
(* query_model is sent before query_power.                                 *)
C21_SingleAttempt ==
    setup.at # "none" =>
        /\ Count(setup.trace, "connect") <= 1
        /\ setup.connected = "false" =>
              /\ Count(setup.trace, "query_model") = 0
              /\ Count(setup.trace, "query_power") = 0
              /\ setup.at = "done" => setup.result = "CONNECTION_REFUSED"
        /\ Count(setup.trace, "query_power") >= 1 =>
              /\ setup.connected = "true"
              /\ Count(setup.trace, "query_model") = 1
              /\ IndexOf(setup.trace, "connect") < IndexOf(setup.trace, "query_model")
              /\ IndexOf(setup.trace, "query_model") < IndexOf(setup.trace, "query_power")
        /\ (setup.connected = "true" /\ setup.at \in {"poll", "return"}) =>
              setup.trace = <<"connect", "query_model", "query_power">>

\* a call whose connect() returned false has ended with CONNECTION_REFUSED
C21_Witness ==
    /\ setup.at = "done"
    /\ setup.connected = "false"
    /\ setup.result = "CONNECTION_REFUSED"
    /\ Count(setup.trace, "connect") = 1

-----------------------------------------------------------------------------
(* media_player.py: device updates folded into the entity attributes *)

\* ((db_value + 90) / db_range) * 100 between 0.0 and 100.0, in hundredths
\* (exact for the dB values used here, cut to a hundredth otherwise)
_db_to_percentage(db_value) ==
    Max(0, Min(100 * Unit, ((db_value + 90) * 100 * Unit) \div db_range))

\* zone states get_zone_state can hand back: keys says which entries the dict has
ZoneStates ==
    {[keys |-> {}, power |-> FALSE, volume |-> -90, muted |-> FALSE, input_name |-> ""],
     [keys |-> {"power", "volume", "muted", "input_name"},
      power |-> TRUE, volume |-> -45, muted |-> TRUE, input_name |-> "HDMI 1"],
     [keys |-> {"power", "volume", "muted", "input_name"},
      power |-> FALSE, volume |-> 0, muted |-> FALSE, input_name |-> ""],
     [keys |-> {"muted"}, power |-> FALSE, volume |-> -90, muted |-> TRUE, input_name |-> ""],
     [keys |-> {"power"}, power |-> TRUE, volume |-> -90, muted |-> FALSE, input_name |-> ""]}

Abs(a) == IF a >= 0 THEN a ELSE -a

\* _update_attributes_from_state: STATE, VOLUME, SOURCE and MEDIA_TITLE
_update_attributes_from_state(attrs, zone_state) ==
    [state |->
        IF "power" \in zone_state.keys
        THEN IF zone_state.power THEN "ON" ELSE "OFF"
        ELSE attrs.state,
     volume |->
        IF "volume" \in zone_state.keys
           /\ Abs(attrs.volume - _db_to_percentage(zone_state.volume)) > 1
        THEN _db_to_percentage(zone_state.volume)
        ELSE attrs.volume,
     source |->
        IF "input_name" \in zone_state.keys THEN zone_state.input_name ELSE attrs.source,
     media_title |->
        IF "input_name" \in zone_state.keys
           /\ attrs.source # zone_state.input_name
           /\ zone_state.input_name # ""
        THEN zone_state.input_name
        ELSE attrs.media_title]

\* _on_device_update with the zone state the client holds
UpdateFromState(zone_state) ==
    /\ mpLast.cmd_id = "none"
    /\ IF zone_state.keys # {}
       THEN /\ mpAttrs' = _update_attributes_from_state(mpAttrs, zone_state)
            /\ mpMuted' = IF "muted" \in zone_state.keys THEN zone_state.muted ELSE mpMuted
       ELSE UNCHANGED <<mpAttrs, mpMuted>>
    /\ mpSent' = {}
    /\ UNCHANGED <<mpZone, mpLast>>
    /\ PlayerFrame

\* params for the run with device updates: none, a volume, a source
StateParams ==
    {NoParams,
     [keys |-> {"volume"}, numeric |-> TRUE, volume |-> 50 * Unit, source |-> ""],
     [keys |-> {"source"}, numeric |-> FALSE, volume |-> 0, source |-> "HDMI 2"]}

NextPlayerState ==
    \/ \E cmd_id \in PlayerCommands, params \in StateParams, outcome \in Outcomes :
          HandleCommand(cmd_id, params, outcome)
    \/ CommandDone
    \/ \E zone_state \in ZoneStates : UpdateFromState(zone_state)

SpecPlayerState == InitPlayer /\ [][NextPlayerState]_vars

(* C22: handle_command leaves the entity attributes (state, volume, muted, *)
(* source) as they were, for every command and every outcome of the client *)
(* call; they change only in a device update.  Hence the MUTE_TOGGLE       *)
(* commands handled between two device updates all send the same mute      *)
(* value, the negation of the attribute.                                   *)
C22_FireAndForget ==
    /\ [][mpLast' # mpLast => mpAttrs' = mpAttrs /\ mpMuted' = mpMuted]_vars
    /\ [](Cardinality(mpSent) <= 1)
    /\ [](mpLast.cmd_id = "MUTE_TOGGLE" =>
              /\ mpLast.calls[1].arg = ~ mpMuted
              /\ mpSent = {~ mpMuted})

\* a second MUTE_TOGGLE after a successful first one, with no update in
\* between, has sent the same value again
C22_Witness ==
    /\ mpLast.cmd_id = "MUTE_TOGGLE"
    /\ mpLast.again
    /\ mpLast.outcome = "true"
    /\ mpMuted
    /\ mpAttrs.state = "ON"
    /\ mpLast.calls[1].arg = FALSE

-----------------------------------------------------------------------------
(* remote.py: AnthemRemote, the audio-controls entity *)

\* LISTENING_MODES: mode name -> mode number
LISTENING_MODES ==
    [name \in {"None", "AnthemLogic Cinema", "AnthemLogic Music", "Dolby Surround",
               "DTS Neural:X", "Stereo", "Multi-Channel Stereo", "All-Channel Stereo",
               "PLIIx Movie", "PLIIx Music", "Neo:6 Cinema", "Neo:6 Music",
               "Dolby Digital", "DTS", "PCM Stereo", "Direct"} |->
        CASE name = "None" -> 0
          [] name = "AnthemLogic Cinema" -> 1
          [] name = "AnthemLogic Music" -> 2
          [] name = "Dolby Surround" -> 3
          [] name = "DTS Neural:X" -> 4
          [] name = "Stereo" -> 5
          [] name = "Multi-Channel Stereo" -> 6
          [] name = "All-Channel Stereo" -> 7
          [] name = "PLIIx Movie" -> 8
          [] name = "PLIIx Music" -> 9
          [] name = "Neo:6 Cinema" -> 10
          [] name = "Neo:6 Music" -> 11
          [] name = "Dolby Digital" -> 12
          [] name = "DTS" -> 13
          [] name = "PCM Stereo" -> 14
          [] name = "Direct" -> 15]

\* simple_commands: the names the entity advertises
simple_commands ==
    {"DOLBY_SURROUND", "DTS_NEURAL_X", "ANTHEMLOGIC_CINEMA", "ANTHEMLOGIC_MUSIC", "STEREO",
     "MULTI_CHANNEL_STEREO", "DIRECT", "PLIIX_MOVIE", "PLIIX_MUSIC", "NEO6_CINEMA",
     "NEO6_MUSIC", "AUDIO_MODE_UP", "AUDIO_MODE_DOWN", "BASS_UP", "BASS_DOWN", "TREBLE_UP",
     "TREBLE_DOWN", "BALANCE_LEFT", "BALANCE_RIGHT", "DOLBY_DRC_NORMAL",
     "DOLBY_DRC_REDUCED", "DOLBY_DRC_LATE_NIGHT", "DOLBY_CENTER_SPREAD_ON",
     "DOLBY_CENTER_SPREAD_OFF"}

\* a chain whose DIRECT branch sends mode 14
CommandSuffixDirect14(command) == IF command = "DIRECT" THEN "ALM14" ELSE ""

\* the if/elif chain of handle_command: what follows Z{zone} in the string
\* the branch for command sends, "" when no branch takes the command
CommandSuffix(command) ==
    CASE command = "DOLBY_SURROUND" -> "ALM3"
      [] command = "DTS_NEURAL_X" -> "ALM4"
      [] command = "ANTHEMLOGIC_CINEMA" -> "ALM1"
      [] command = "ANTHEMLOGIC_MUSIC" -> "ALM2"
      [] command = "STEREO" -> "ALM5"
      [] command = "MULTI_CHANNEL_STEREO" -> "ALM6"
      [] command = "DIRECT" -> "ALM15"
      [] command = "AUDIO_MODE_UP" -> "AUP"
      [] command = "AUDIO_MODE_DOWN" -> "ADN"
      [] command = "BASS_UP" -> "TUP0"
      [] command = "BASS_DOWN" -> "TDN0"
      [] command = "TREBLE_UP" -> "TUP1"
      [] command = "TREBLE_DOWN" -> "TDN1"
      [] command = "BALANCE_LEFT" -> "BLT"
      [] command = "BALANCE_RIGHT" -> "BRT"
      [] command = "DOLBY_DRC_NORMAL" -> "DYN0"
      [] command = "DOLBY_DRC_REDUCED" -> "DYN1"
      [] command = "DOLBY_DRC_LATE_NIGHT" -> "DYN2"
      [] command = "DOLBY_CENTER_SPREAD_ON" -> "DSCS1"
      [] command = "DOLBY_CENTER_SPREAD_OFF" -> "DSCS0"
      [] OTHER -> ""

\* await self._device._send_command(raw); return StatusCodes.OK -- the value
\* _send_command returns is not looked at
SendThenOK(raw, outcome) ==
    IF outcome = "raise"
    THEN [status |-> "none", sent |-> <<raw>>, exc |-> TRUE]
    ELSE [status |-> "OK", sent |-> <<raw>>, exc |-> FALSE]

RemoteReturned(status) == [status |-> status, sent |-> <<>>, exc |-> FALSE]

\* the body of the try block of AnthemRemote.handle_command
RemoteBody(cmd_id, params, zone, outcome) ==
    IF cmd_id # "send_cmd" THEN RemoteReturned("NOT_FOUND")
    ELSE IF "command" \notin params.keys THEN RemoteReturned("BAD_REQUEST")
    ELSE IF CommandSuffix(params.command) # ""
         THEN SendThenOK("Z" \o IntToStr(zone) \o CommandSuffix(params.command), outcome)
         ELSE RemoteReturned("NOT_FOUND")

\* try: ... except Exception: return SERVER_ERROR
remote_handle_command(cmd_id, params, zone, outcome) ==
    LET r == RemoteBody(cmd_id, params, zone, outcome)
    IN  IF r.exc THEN [r EXCEPT !.status = "SERVER_ERROR", !.exc = FALSE] ELSE r

\* command ids the remote may be sent
RemoteCommandIds == {"send_cmd", "send_cmd_sequence", "on"}

\* params: None or {} (no keys), or a command name, advertised or not
RemoteParams ==
    {[keys |-> {}, command |-> ""]}
    \cup {[keys |-> {"command"}, command |-> c] :
             c \in simple_commands \cup {"", "VOLUME_UP", "dolby_surround"}}

InitRemote ==
    /\ ParserIdle /\ DeviceIdle /\ ConnIdle /\ WriterIdle /\ SessionIdle /\ PlayerIdle
    /\ SetupIdle /\ ConfigIdle
    /\ rmZone \in 1..MaxZone
    /\ rmLast = [cmd_id |-> "none"]

RemoteFrame ==
    UNCHANGED <<parserVars, deviceVars, connVars, writerVars, sessionVars, playerVars,
                setupVars, configVars>>

\* the remote is sent a command; outcome is what _send_command does if called
RemoteHandleCommand(cmd_id, params, outcome) ==
    /\ rmLast.cmd_id = "none"
    /\ LET r == remote_handle_command(cmd_id, params, rmZone, outcome)
       IN  rmLast' = [cmd_id |-> cmd_id, params |-> params, outcome |-> outcome,
                      status |-> r.status, sent |-> r.sent, raised |-> r.exc,
                      echo |-> NoMsg]
    /\ UNCHANGED rmZone
    /\ RemoteFrame

\* the receiver broadcasts the string it was sent and the parser reads it
RemoteEcho ==
    /\ rmLast.cmd_id # "none"
    /\ rmLast.sent # <<>>
    /\ rmLast.outcome = "true"
    /\ rmLast.echo = NoMsg
    /\ parse_message(rmLast.sent[1]) # NoMsg
    /\ rmLast' = [rmLast EXCEPT !.echo = parse_message(rmLast.sent[1])]
    /\ UNCHANGED rmZone
    /\ RemoteFrame

\* the status has gone back to the caller
RemoteDone ==
    /\ rmLast.cmd_id # "none"
    /\ rmLast' = [cmd_id |-> "none"]
    /\ UNCHANGED rmZone
    /\ RemoteFrame

NextRemote ==
    \/ \E cmd_id \in RemoteCommandIds, params \in RemoteParams, outcome \in Outcomes :
          RemoteHandleCommand(cmd_id, params, outcome)
    \/ RemoteEcho
    \/ RemoteDone

SpecRemote == InitRemote /\ [][NextRemote]_vars

\* the listening-mode commands handle_command has a branch for
ListeningModeCommands ==
    {c \in simple_commands : Slice(CommandSuffix(c), 1, 3) = "ALM"}

\* the mode each listening-mode command is named after
ModeNameOf(command) ==
    CASE command = "DOLBY_SURROUND" -> "Dolby Surround"
      [] command = "DTS_NEURAL_X" -> "DTS Neural:X"
      [] command = "ANTHEMLOGIC_CINEMA" -> "AnthemLogic Cinema"
      [] command = "ANTHEMLOGIC_MUSIC" -> "AnthemLogic Music"
      [] command = "STEREO" -> "Stereo"
      [] command = "MULTI_CHANNEL_STEREO" -> "Multi-Channel Stereo"
      [] command = "DIRECT" -> "Direct"
      [] OTHER -> "None"

\* the last command was a listening-mode command and its string was sent
ModeCommandSent ==
    /\ rmLast.cmd_id = "send_cmd"
    /\ "command" \in rmLast.params.keys
    /\ rmLast.params.command \in ListeningModeCommands
    /\ rmLast.sent # <<>>

\* C23: a listening-mode command handled for zone z sends Z{z}ALM{n} with n the
\* number LISTENING_MODES gives for the mode's name, parse_message of that string
\* is ZoneListeningMode(z, n, that name), and LISTENING_MODES is the exact
\* inverse of the parser's 16-entry table
C23_ModeRoundTrip ==
    /\ DOMAIN mode_names = 0..15
    /\ Cardinality(DOMAIN LISTENING_MODES) = 16
    /\ \A name \in DOMAIN LISTENING_MODES :
          /\ LISTENING_MODES[name] \in DOMAIN mode_names
          /\ mode_names[LISTENING_MODES[name]] = name
    /\ \A n \in DOMAIN mode_names :
          /\ mode_names[n] \in DOMAIN LISTENING_MODES
          /\ LISTENING_MODES[mode_names[n]] = n
    /\ ModeCommandSent =>
          LET name == ModeNameOf(rmLast.params.command)
              n == LISTENING_MODES[name]
          IN  /\ rmLast.sent = <<"Z" \o IntToStr(rmZone) \o "ALM" \o IntToStr(n)>>
              /\ parse_message(rmLast.sent[1]) = ZoneListeningMode(rmZone, n, name)
              /\ rmLast.echo \in {NoMsg, ZoneListeningMode(rmZone, n, name)}

\* DIRECT was sent for zone 2 and its echo was parsed as mode 15, Direct
C23_Witness ==
    /\ ModeCommandSent
    /\ rmLast.params.command = "DIRECT"
    /\ rmZone = 2
    /\ rmLast.echo = ZoneListeningMode(2, 15, "Direct")

\* the call has returned or raised
SetupEnded == setup.at = "done"

\* C24 as stated: every call with a non-empty host calls disconnect() exactly
\* once, as its last call on the test device; with an empty host no device is
\* created and nothing is called
C24_Original ==
    SetupEnded =>
        IF Strip(setup.host) # ""
        THEN /\ Count(setup.trace, "disconnect") = 1
             /\ setup.trace[Len(setup.trace)] = "disconnect"
        ELSE ~ setup.created /\ setup.trace = <<>>

\* C24: a call that created the test device (non-empty host, port and zones
\* that int() accepts) calls disconnect() on it exactly once, as the last call
\* before it returns, on every path; a call that did not create it (empty host,
\* or int() raised) calls neither connect nor disconnect
C24_DisconnectOnce ==
    setup.at # "none" =>
        /\ setup.created <=>
              (Strip(setup.host) # "" /\ IntParses(setup.port) /\ IntParses(setup.zones))
        /\ (setup.created /\ SetupEnded) =>
              /\ Count(setup.trace, "disconnect") = 1
              /\ setup.trace[Len(setup.trace)] = "disconnect"
              /\ setup.trace[1] = "connect"
              /\ setup.result \in {"config", "CONNECTION_REFUSED", "OTHER"}
        /\ (setup.created /\ ~ SetupEnded) => Count(setup.trace, "disconnect") = 0
        /\ ~ setup.created =>
              /\ SetupEnded
              /\ setup.trace = <<>>
              /\ setup.result = IF Strip(setup.host) = "" THEN "form" ELSE "raised"

\* query_power raised and the call ended with the device disconnected
C24_Witness ==
    /\ SetupEnded
    /\ setup.raisedIn = "query_power"
    /\ setup.result = "OTHER"
    /\ setup.trace = <<"connect", "query_model", "query_power", "disconnect">>

\* the port field held text that is not a number: the call has raised with no
\* test device created and no disconnect
C24_NoDevice ==
    /\ SetupEnded
    /\ Strip(setup.host) # ""
    /\ ~ IntParses(setup.port)
    /\ setup.result = "raised"
    /\ setup.trace = <<>>

\* C27: when connect() returned true and nothing raised, query_device returns
\* the device configuration whether the cached model arrived in the window
\* (polling stops at the first non-empty value) or the window expired; a setup
\* error is returned only after a failed connect or a raised exception
C27_WindowDoesNotDecide ==
    /\ (SetupEnded /\ setup.connected = "true" /\ setup.raisedIn = "none") =>
          setup.result = "config"
    /\ (SetupEnded /\ setup.result = "CONNECTION_REFUSED") => setup.connected = "false"
    /\ (SetupEnded /\ setup.result = "OTHER") => setup.raisedIn # "none"
    /\ (setup.at # "none" /\ setup.received) =>
          /\ setup.at \in {"return", "finally", "done"}
          /\ setup.polls < MaxPolls
    /\ (setup.at \in {"return", "finally"} /\ setup.ret \in {"none", "config"}
          /\ ~ setup.received) => setup.polls = MaxPolls

\* the window expired with no response and the configuration was returned
C27_Witness ==
    /\ SetupEnded
    /\ setup.connected = "true"
    /\ ~ setup.received
    /\ setup.polls = MaxPolls
    /\ setup.result = "config"

\* a command has been handled and its status not yet taken
RemoteHandled == rmLast.cmd_id # "none"

\* the last call was SEND_CMD with this command parameter
SentCommand(command) ==
    /\ rmLast.cmd_id = "send_cmd"
    /\ "command" \in rmLast.params.keys
    /\ rmLast.params.command = command

\* C25 as stated: every advertised command name sent as SEND_CMD causes exactly
\* one _send_command with a Z{zone}-prefixed string and returns OK (when the
\* write does not raise), never NOT_FOUND; another command id gives NOT_FOUND,
\* a missing command parameter BAD_REQUEST and an unadvertised name NOT_FOUND,
\* each without a write
C25_Original ==
    RemoteHandled =>
        /\ \A c \in simple_commands : SentCommand(c) =>
              /\ Len(rmLast.sent) = 1
              /\ Slice(rmLast.sent[1], 1, 2) = "Z" \o IntToStr(rmZone)
              /\ rmLast.status # "NOT_FOUND"
              /\ rmLast.outcome # "raise" => rmLast.status = "OK"
        /\ rmLast.cmd_id # "send_cmd" =>
              rmLast.sent = <<>> /\ rmLast.status = "NOT_FOUND"
        /\ (rmLast.cmd_id = "send_cmd" /\ "command" \notin rmLast.params.keys) =>
              rmLast.sent = <<>> /\ rmLast.status = "BAD_REQUEST"
        /\ (rmLast.cmd_id = "send_cmd" /\ "command" \in rmLast.params.keys
              /\ rmLast.params.command \notin simple_commands) =>
              rmLast.sent = <<>> /\ rmLast.status = "NOT_FOUND"

\* the advertised commands handle_command has no branch for
Unhandled == {c \in simple_commands : CommandSuffix(c) = ""}

\* an advertised command was answered NOT_FOUND with nothing written
C25_AdvertisedNotFound ==
    /\ RemoteHandled
    /\ \E c \in Unhandled : SentCommand(c)
    /\ rmLast.status = "NOT_FOUND"
    /\ rmLast.sent = <<>>

\* C26 as stated: for a recognized command handle_command returns OK only if
\* _send_command reported success; when the write returns false or raises the
\* status is an error, and handle_command never raises
C26_Original ==
    RemoteHandled =>
        /\ ~ rmLast.raised
        /\ (rmLast.sent # <<>> /\ rmLast.status = "OK") => rmLast.outcome = "true"
        /\ (rmLast.sent # <<>> /\ rmLast.outcome \in {"false", "raise"}) =>
              rmLast.status \in {"SERVER_ERROR", "SERVICE_UNAVAILABLE"}

\* a write that reported failure was answered OK
C26_FailedWriteOK ==
    /\ RemoteHandled
    /\ rmLast.sent # <<>>
    /\ rmLast.outcome = "false"
    /\ rmLast.status = "OK"

-----------------------------------------------------------------------------
(* config.py: AnthemConfig, the list of configured devices and its file *)

DeviceIds == {"a", "b"}

DeviceNames == {"n1", "n2"}

\* DeviceConfig, cut down to the id and one field update_device may set
DeviceConfigs == [device_id : DeviceIds, name : DeviceNames]

\* what the file system does to a save: the write succeeds, open() fails and
\* the file is untouched, or json.dump fails after open() truncated the file
SaveOutcomes == {"ok", "open_fails", "dump_fails"}

\* _save_config: the file after the call, given the list to save
_save_config(devs, save) ==
    CASE save = "ok" -> devs
      [] save = "open_fails" -> disk
      [] OTHER -> <<>>

\* existing_ids = [d.device_id for d in self._devices]
existing_ids(devs) == {devs[i].device_id : i \in 1..Len(devs)}

\* get_device: the first device with the id, NoDevice for None
NoDevice == [device_id |-> "", name |-> ""]

get_device(devs, device_id) ==
    IF device_id \in existing_ids(devs)
    THEN devs[CHOOSE i \in 1..Len(devs) :
                 /\ devs[i].device_id = device_id
                 /\ \A j \in 1..(i - 1) : devs[j].device_id # device_id]
    ELSE NoDevice

\* add_device up to the save: ValueError for a duplicate id, else the append
add_device(devs, device) ==
    IF device.device_id \in existing_ids(devs)
    THEN [raise |-> TRUE, devs |-> devs]
    ELSE [raise |-> FALSE, devs |-> Append(devs, device)]

\* [d for d in self._devices if d.device_id != device_id]
remove_device(devs, device_id) == SelectSeq(devs, LAMBDA d : d.device_id # device_id)

\* an update_device that lets the id be set
allowed_fields_with_id == {"name", "device_id"}

\* allowed_fields of update_device, of the fields modelled
allowed_fields == {"name"}

\* the kwargs of update_device: none, or one field and its value
UpdateKwargs ==
    {[field |-> "none", value |-> ""]}
    \cup [field : {"name", "device_id", "zones"}, value : {"b", "n2"}]

\* the setattr loop on the first device with the id
update_device(devs, device_id, kw) ==
    LET i == CHOOSE k \in 1..Len(devs) :
                 /\ devs[k].device_id = device_id
                 /\ \A j \in 1..(k - 1) : devs[j].device_id # device_id
    IN  CASE kw.field = "name" -> [devs EXCEPT ![i].name = kw.value]
          [] kw.field = "device_id" -> [devs EXCEPT ![i].device_id = kw.value]
          [] OTHER -> devs

\* the id whose add_device failed in the save, when c was such a call
FailedAdd(c) == IF c.op = "add" /\ c.why = "save" THEN c.id ELSE ""

\* the record of a call: its result, the list before it, and the call before
Called(op, id, ret, why) ==
    [op |-> op, id |-> id, ret |-> ret, why |-> why, before |-> devices,
     prev |-> FailedAdd(cfgLast)]

InitConfig ==
    /\ ParserIdle /\ DeviceIdle /\ ConnIdle /\ WriterIdle /\ SessionIdle /\ PlayerIdle
    /\ SetupIdle /\ RemoteIdle
    /\ devices = <<>>
    /\ disk = <<>>
    /\ cfgLast = [op |-> "none"]

ConfigFrame ==
    UNCHANGED <<parserVars, deviceVars, connVars, writerVars, sessionVars, playerVars,
                setupVars, remoteVars>>

AddDevice(device, save) ==
    /\ LET r == add_device(devices, device)
       IN  /\ devices' = r.devs
           /\ disk' = IF r.raise THEN disk ELSE _save_config(r.devs, save)
           /\ cfgLast' = Called("add", device.device_id,
                                IF r.raise \/ save # "ok" THEN "raise" ELSE "none",
                                IF r.raise THEN "duplicate"
                                ELSE IF save # "ok" THEN "save" ELSE "none")
    /\ ConfigFrame

RemoveDevice(device_id, save) ==
    /\ LET devs == remove_device(devices, device_id)
           removed == Len(devs) < Len(devices)
       IN  /\ devices' = devs
           /\ disk' = IF removed THEN _save_config(devs, save) ELSE disk
           /\ cfgLast' = Called("remove", device_id,
                                IF ~ removed THEN "false"
                                ELSE IF save # "ok" THEN "raise" ELSE "true",
                                IF removed /\ save # "ok" THEN "save" ELSE "none")
    /\ ConfigFrame

UpdateDevice(device_id, kw, save) ==
    /\ LET found == get_device(devices, device_id) # NoDevice
           updated == found /\ kw.field \in allowed_fields
           devs == IF updated THEN update_device(devices, device_id, kw) ELSE devices
       IN  /\ devices' = devs
           /\ disk' = IF updated THEN _save_config(devs, save) ELSE disk
           /\ cfgLast' = Called("update", device_id,
                                IF ~ updated THEN "false"
                                ELSE IF save # "ok" THEN "raise" ELSE "true",
                                IF updated /\ save # "ok" THEN "save" ELSE "none")
    /\ ConfigFrame

ClearAllDevices(save) ==
    /\ devices' = <<>>
    /\ disk' = _save_config(<<>>, save)
    /\ cfgLast' = Called("clear", "", IF save # "ok" THEN "raise" ELSE "none",
                         IF save # "ok" THEN "save" ELSE "none")
    /\ ConfigFrame

NextConfig ==
    \/ \E device \in DeviceConfigs, save \in SaveOutcomes : AddDevice(device, save)
    \/ \E device_id \in DeviceIds, save \in SaveOutcomes : RemoveDevice(device_id, save)
    \/ \E device_id \in DeviceIds, kw \in UpdateKwargs, save \in SaveOutcomes :
          UpdateDevice(device_id, kw, save)
    \/ \E save \in SaveOutcomes : ClearAllDevices(save)

SpecConfig == InitConfig /\ [][NextConfig]_vars

\* the device ids of a list, in order
Ids(devs) == [i \in 1..Len(devs) |-> devs[i].device_id]

\* no two devices of the list have the same device_id
UniqueIds(devs) ==
    \A i, j \in 1..Len(devs) : i # j => devs[i].device_id # devs[j].device_id

\* the last call was remove_device of an id the list held
RemovedPresent == cfgLast.op = "remove" /\ cfgLast.id \in existing_ids(cfgLast.before)

\* C28 as stated: no two devices share a device_id, update_device never
\* changes a device_id, remove_device returns true exactly when a device with
\* the id was present, and get_device for the id then returns none
C28_Original ==
    /\ UniqueIds(devices)
    /\ cfgLast.op = "update" => Ids(devices) = Ids(cfgLast.before)
    /\ cfgLast.op = "remove" =>
          /\ cfgLast.ret = "true" <=> RemovedPresent
          /\ get_device(devices, cfgLast.id) = NoDevice

\* C28: no two devices share a device_id, update_device never changes a
\* device_id, remove_device returns true only when a device with the id was
\* present and false only when none was; when one was present and the save
\* fails it raises instead of returning; in every case get_device for the id
\* returns none afterwards
C28_UniqueIds ==
    /\ UniqueIds(devices)
    /\ cfgLast.op = "update" => Ids(devices) = Ids(cfgLast.before)
    /\ cfgLast.op = "remove" =>
          /\ cfgLast.ret = "true" => RemovedPresent
          /\ cfgLast.ret = "false" <=> ~ RemovedPresent
          /\ cfgLast.ret = "raise" <=> (RemovedPresent /\ cfgLast.why = "save")
          /\ get_device(devices, cfgLast.id) = NoDevice

\* with two devices configured, remove_device of one returned true and left
\* the other
C28_Witness ==
    /\ RemovedPresent
    /\ cfgLast.ret = "true"
    /\ Len(cfgLast.before) = 2
    /\ Len(devices) = 1
    /\ get_device(devices, cfgLast.id) = NoDevice

\* remove_device of a present device raised in the save
C28_RemoveRaised ==
    /\ RemovedPresent
    /\ cfgLast.ret = "raise"
    /\ get_device(devices, cfgLast.id) = NoDevice

\* the last call was an add_device that raised
AddRaised == cfgLast.op = "add" /\ cfgLast.ret = "raise"

\* C29 as stated: when add_device raises, for a duplicate id or a failed save,
\* the list is the same as before the call, so an add_device of the same device
\* right after a failed save is not rejected as a duplicate
C29_Original ==
    /\ AddRaised => devices = cfgLast.before
    /\ (AddRaised /\ cfgLast.prev = cfgLast.id) => cfgLast.why # "duplicate"

\* the add_device after a failed save of the same id was rejected as duplicate
C29_RejectedAfterFailedSave ==
    /\ AddRaised
    /\ cfgLast.prev = cfgLast.id
    /\ cfgLast.why = "duplicate"

====
